---- MODULE Spec2Model ----
(***************************************************************************)
(* The streaming bridge of codex-rs/server (src/lib.rs).                   *)
(*                                                                         *)
(* A streaming session is what a handler leaves behind once the upstream   *)
(* has answered a streaming request: a detached forwarding task that reads *)
(* the upstream byte stream chunk by chunk, a bounded tokio mpsc channel,  *)
(* and the outbound response body that receives from the channel.          *)
(*   translating : /v1/chat/completions on a Responses provider            *)
(*                 (chat_to_responses_proxy_cc, lib.rs 733-815)            *)
(*   passthrough : /v1/chat/completions on a Chat provider (lib.rs 260-292)*)
(*                 /v1/responses on a Responses provider (lib.rs 402-433)  *)
(*                                                                         *)
(* A byte stream is a sequence of byte runs.  "\n" is always a run of its  *)
(* own, so every position at which the delimiter search of the reassembler *)
(* can be cut by a chunk boundary is a position of the sequence.           *)
(***************************************************************************)
EXTENDS Integers, Sequences, FiniteSets, TLC

(***************************************************************************)
(* Bounds of the model.                                                    *)
(***************************************************************************)
\* data lines in one upstream script of a translating session
MaxLines == 3
\* the same, for an upstream that goes on delivering for ever
MaxLiveLines == 2
\* byte runs in one upstream stream of a passthrough session
MaxRawLen == 3
\* bits of a token counter (u64 in the program: the counters of the model
\* are narrower, and wrap or overflow where u64 does)
TokenBits == 3
\* messages in one chat request
MaxMsgs == 2
\* parts in one array content, and in the content of one output item
MaxParts == 2
\* items in the output array of one upstream answer
MaxItems == 2
\* data lines in the answer to the one streaming request the server serves
MaxServerLines == 2
\* data lines in each stream of two sessions that run at once
MaxTwoLines == 2

\* how many requests the server is given one after the other
MaxRequests == 2

\* the capacities of the cache of titles, from 1 on
MaxCapacity == 2

\* the modification times of the files, from 0 on
MaxTime == 1

\* how many operations the cache alone is given
MaxOps == 5

\* how many times a file is written
MaxWrites == 2
\* lines in a stream that has lines the translating task ignores
MaxIgnoredLines == 2

(***************************************************************************)
(* Program constants.                                                      *)
(***************************************************************************)
\* mpsc::channel(16): the three passthrough sites
PassthroughCapacity == 16
\* mpsc::channel(64): chat_to_responses_proxy_cc
TranslatingCapacity == 64

Sessions == {"s1", "s2"}

(***************************************************************************)
(* Byte runs.                                                              *)
(***************************************************************************)
NL == "\n"
DataPrefix == "data: "
DoneSentinel == "[DONE]"
TypeDelta == "{\"type\":\"response.output_text.delta\""
TypeCompleted == "{\"type\":\"response.completed\""
TypeOther == "{\"type\":\"response.created\""
DeltaA == ",\"delta\":\"a\""
DeltaB == ",\"delta\":\"b\""
CloseBrace == "}"
\* six bytes that are not "data: "
InfoPrefix == "info: "
\* a byte that no UTF-8 text has
NonUtf8 == "0xFF"

KindDelta == "response.output_text.delta"
KindCompleted == "response.completed"
KindOther == "response.created"
NoDelta == "none"

Min(a, b) == IF a < b THEN a ELSE b
Max(a, b) == IF a < b THEN b ELSE a

IsPrefix(s, t) == Len(s) <= Len(t) /\ SubSeq(t, 1, Len(s)) = s

(***************************************************************************)
(* Parsing of one reassembled event (lib.rs 753-762).                      *)
(***************************************************************************)
\* memchr::memmem::find(&buf, b"\n\n"): the first position of the
\* delimiter, 1-based; 0 when there is none
FindDelim(b) ==
    LET hits == {p \in 1..(Len(b) - 1) : b[p] = NL /\ b[p + 1] = NL}
    IN  IF hits = {} THEN 0 ELSE CHOOSE p \in hits : \A q \in hits : p <= q

\* event.split(|&b| b == b'\n'): the runs between newlines, empty ones kept
RECURSIVE SplitFrom(_, _, _)
SplitFrom(ev, k, cur) ==
    IF k > Len(ev) THEN <<cur>>
    ELSE IF ev[k] = NL THEN <<cur>> \o SplitFrom(ev, k + 1, <<>>)
    ELSE SplitFrom(ev, k + 1, Append(cur, ev[k]))

SplitLines(ev) == SplitFrom(ev, 1, <<>>)

\* a task that takes the payload of a line whatever its first six bytes
StartsWithAnyPrefix(line) == Len(line) >= 1

\* line.starts_with(b"data: ")
StartsWithData(line) == Len(line) >= 1 /\ line[1] = DataPrefix

TypeOf(run) ==
    CASE run = TypeDelta -> KindDelta
      [] run = TypeCompleted -> KindCompleted
      [] OTHER -> KindOther

DeltaOf(run) == IF run = DeltaA THEN "a" ELSE "b"

\* serde_json::from_str on the payload, then val.get("type") and
\* val.get("delta") as strings: an object is an opening run that carries
\* the type, any number of delta members and the closing brace; anything
\* else is not JSON
ParseJson(p) ==
    LET n == Len(p)
        wellFormed ==
            /\ n >= 2
            /\ p[1] \in {TypeDelta, TypeCompleted, TypeOther}
            /\ p[n] = CloseBrace
            /\ \A k \in 2..(n - 1) : p[k] \in {DeltaA, DeltaB}
    IN  IF ~wellFormed THEN [ok |-> FALSE, type |-> "", delta |-> NoDelta]
        ELSE [ok |-> TRUE,
              type |-> TypeOf(p[1]),
              delta |-> IF n > 2 THEN DeltaOf(p[n - 1]) ELSE NoDelta]

\* std::str::from_utf8(payload) is Ok (lib.rs 758)
IsUtf8(p) == \A k \in 1..Len(p) : p[k] # NonUtf8

\* a task that takes the [DONE] of the upstream for the end of the answer
LineActionDoneEnds(line) ==
    IF ~StartsWithData(line) THEN [act |-> "skip", text |-> NoDelta]
    ELSE IF Tail(line) = <<DoneSentinel>> THEN [act |-> "completed", text |-> NoDelta]
    ELSE LET val == ParseJson(Tail(line))
         IN  IF val.ok /\ val.type = KindDelta /\ val.delta # NoDelta
             THEN [act |-> "delta", text |-> val.delta]
             ELSE IF val.ok /\ val.type = KindCompleted
                  THEN [act |-> "completed", text |-> NoDelta]
                  ELSE [act |-> "skip", text |-> NoDelta]

\* what one line of an event makes the task do (lib.rs 756-799)
LineAction(line) ==
    IF ~StartsWithData(line) THEN [act |-> "skip", text |-> NoDelta]
    ELSE LET payload == Tail(line)
         IN  IF payload = <<DoneSentinel>> THEN [act |-> "skip", text |-> NoDelta]
             ELSE IF ~IsUtf8(payload) THEN [act |-> "skip", text |-> NoDelta]
             ELSE LET val == ParseJson(payload)
                  IN  IF ~val.ok THEN [act |-> "skip", text |-> NoDelta]
                      ELSE IF val.type = KindDelta
                           THEN IF val.delta # NoDelta
                                THEN [act |-> "delta", text |-> val.delta]
                                ELSE [act |-> "skip", text |-> NoDelta]
                      ELSE IF val.type = KindCompleted
                           THEN [act |-> "completed", text |-> NoDelta]
                      ELSE [act |-> "skip", text |-> NoDelta]

(***************************************************************************)
(* Outbound items.                                                         *)
(***************************************************************************)
EmptyObj == [k \in {} |-> ""]

\* serde_json::json!({"content": delta}) and the role set on the first one
DeltaObj(text, sr) ==
    IF ~sr THEN [content |-> text, role |-> "assistant"] ELSE [content |-> text]

\* a chunk that takes the time when it is made: the stop chunk is later
ChunkJsonFreshTime(st, delta, fin) ==
    [id |-> st.cc_id, object |-> "chat.completion.chunk",
     created |-> IF fin = "stop" THEN st.created + 1 ELSE st.created,
     model |-> st.model, index |-> 0, delta |-> delta, finish_reason |-> fin]

\* the chat.completion.chunk object, stamped with the session's id, created
\* and model
ChunkJson(st, delta, fin) ==
    [id |-> st.cc_id, object |-> "chat.completion.chunk", created |-> st.created,
     model |-> st.model, index |-> 0, delta |-> delta, finish_reason |-> fin]

\* a frame that a single newline ends
SseJsonOneNewline(j) ==
    [kind |-> "json", prefix |-> DataPrefix, body |-> j, suffix |-> <<NL>>]

\* format!("data: {}\n\n", chunk.to_string())
SseJson(j) ==
    [kind |-> "json", prefix |-> DataPrefix, body |-> j, suffix |-> <<NL, NL>>]

\* "data: [DONE]\n\n"
SseDone ==
    [kind |-> "done", prefix |-> DataPrefix, body |-> DoneSentinel,
     suffix |-> <<NL, NL>>]

NoItem == [kind |-> "none"]

DeltaFrame(st, text, sr) == SseJson(ChunkJson(st, DeltaObj(text, sr), "null"))

FinalChunk(st) == SseJson(ChunkJson(st, EmptyObj, "stop"))

IsDeltaFrame(f) == f.kind = "json" /\ f.body.finish_reason = "null"
IsStopFrame(f) == f.kind = "json" /\ f.body.finish_reason = "stop"
IsDoneFrame(f) == f.kind = "done"
HasRole(f) == f.kind = "json" /\ "role" \in DOMAIN f.body.delta

(***************************************************************************)
(* The reassembly loop of the translating task (lib.rs 751-804), run from  *)
(* one suspension point to the next.                                       *)
(***************************************************************************)
\* a reassembler that keeps only the newest chunk
ExtendForgetsTail(b, bytes) == bytes

\* buf.extend_from_slice(&bytes)
Extend(b, bytes) == b \o bytes

\* a drain that leaves the second newline of the delimiter in the buffer
DrainKeepsNewline(b, p) ==
    [event |-> SubSeq(b, 1, p + 1), rest |-> SubSeq(b, p + 1, Len(b))]

\* a drain that empties the buffer
DrainEverything(b, p) == [event |-> SubSeq(b, 1, p + 1), rest |-> <<>>]

\* buf.drain(..pos + 2): the event with its delimiter, and what stays
DrainThrough(b, p) ==
    [event |-> SubSeq(b, 1, p + 1), rest |-> SubSeq(b, p + 2, Len(b))]

\* a task that never sets the flag
RoleFlagNeverSet(sr) == sr

\* sent_role once a delta frame has been built (lib.rs 764-767)
RoleFlagAfterDelta(sr) == TRUE

\* Runs the task from the lines still to visit of the drained event (ls),
\* the buffer (b) and the role flag (sr) to its next await: a send of a
\* delta frame ("send"), the first final send ("send_s1"), or the next
\* upstream read ("next").
RECURSIVE Advance(_, _, _, _)
Advance(st, b, ls, sr) ==
    IF ls # <<>>
    THEN LET a == LineAction(Head(ls))
         IN  CASE a.act = "delta" ->
                    [pc |-> "send", buf |-> b, lines |-> Tail(ls),
                     sent_role |-> RoleFlagAfterDelta(sr),
                     pending |-> DeltaFrame(st, a.text, sr)]
               [] a.act = "completed" ->
                    [pc |-> "send_s1", buf |-> b, lines |-> Tail(ls),
                     sent_role |-> sr, pending |-> FinalChunk(st)]
               [] OTHER -> Advance(st, b, Tail(ls), sr)
    ELSE LET p == FindDelim(b)
         IN  IF p = 0
             THEN [pc |-> "next", buf |-> b, lines |-> <<>>, sent_role |-> sr,
                   pending |-> NoItem]
             ELSE LET d == DrainThrough(b, p)
                      \* the rest and the lines are bound as values, so
                      \* that no level of the recursion computes them again
                      next == {Advance(st, rest, ls2, sr) :
                                 rest \in {d.rest}, ls2 \in {SplitLines(d.event)}}
                  IN  CHOOSE t \in next : TRUE

(***************************************************************************)
(* Upstream byte streams.  A script is what the upstream means to send: a  *)
(* list of data lines, each followed by a single newline (the frame goes   *)
(* on), by a blank line (the frame ends) or by nothing (the stream stops   *)
(* inside the line; last line only).                                       *)
(***************************************************************************)
LineKinds == {"delta_a", "delta_b", "delta_none", "completed", "other"}

LineBytes(kind) ==
    CASE kind = "delta_a" -> <<DataPrefix, TypeDelta, DeltaA, CloseBrace>>
      [] kind = "delta_b" -> <<DataPrefix, TypeDelta, DeltaB, CloseBrace>>
      [] kind = "delta_none" -> <<DataPrefix, TypeDelta, CloseBrace>>
      [] kind = "completed" -> <<DataPrefix, TypeCompleted, CloseBrace>>
      [] kind = "done" -> <<DataPrefix, DoneSentinel>>
      [] kind = "nodata" -> <<InfoPrefix, TypeCompleted, CloseBrace>>
      [] kind = "badjson" -> <<DataPrefix, TypeDelta, DeltaA>>
      [] kind = "badutf8" -> <<DataPrefix, NonUtf8, TypeCompleted, CloseBrace>>
      [] OTHER -> <<DataPrefix, TypeOther, CloseBrace>>

SepBytes(sep) ==
    CASE sep = "cont" -> <<NL>>
      [] sep = "end" -> <<NL, NL>>
      [] OTHER -> <<>>

RECURSIVE Encode(_)
Encode(sc) ==
    IF sc = <<>> THEN <<>>
    ELSE LineBytes(sc[1].line) \o SepBytes(sc[1].sep) \o Encode(Tail(sc))

ScriptsOfLen(n) ==
    {sc \in [1..n -> [line : LineKinds, sep : {"cont", "end", "open"}]] :
        \A k \in 1..(n - 1) : sc[k].sep # "open"}

Scripts == UNION {ScriptsOfLen(n) : n \in 0..MaxLines}

RawRuns == {"x", NL}

RawStreams == UNION {[1..n -> RawRuns] : n \in 0..MaxRawLen}

(***************************************************************************)
(* Sessions.                                                               *)
(***************************************************************************)
\* a server that forwards everything as it is
ModeOfAlwaysPassthrough(surface, wire_api) == "passthrough"

\* which handling a request gets (lib.rs 201-203, 312-320)
ModeOf(surface, wire_api) ==
    CASE surface = "chat" /\ wire_api = "Responses" -> "translating"
      [] surface = "chat" /\ wire_api = "Chat" -> "passthrough"
      [] surface = "responses" /\ wire_api = "Responses" -> "passthrough"
      [] OTHER -> "none"

\* mpsc::channel(64) in the translating task, mpsc::channel(16) elsewhere
ChannelCapacity(mode) ==
    IF mode = "translating" THEN TranslatingCapacity ELSE PassthroughCapacity

TranslatingInput(sc, mtu) ==
    [surface |-> "chat", wire_api |-> "Responses", script |-> sc,
     stream |-> Encode(sc), mtu |-> mtu,
     cc_id |-> "chatcmpl-1", created |-> 1700000000, model |-> "gpt-5"]

PassthroughInput(surface, wire_api, bytes, mtu) ==
    [surface |-> surface, wire_api |-> wire_api, script |-> <<>>,
     stream |-> bytes, mtu |-> mtu,
     cc_id |-> "", created |-> 0, model |-> "gpt-5"]

Absent ==
    [surface |-> "none", wire_api |-> "none", script |-> <<>>, stream |-> <<>>,
     mtu |-> 0, cc_id |-> "", created |-> 0, model |-> ""]

TranslatingInputs == {TranslatingInput(sc, Len(Encode(sc))) : sc \in Scripts}

PassthroughInputs ==
    {PassthroughInput(sw[1], sw[2], r, Len(r)) :
        sw \in {<<"chat", "Chat">>, <<"responses", "Responses">>}, r \in RawStreams}

VARIABLES
    input,      \* per session: the request's surface, the provider's wire kind,
                \* the bytes the upstream will deliver and the stamp of the session
    pos,        \* bytes of the upstream stream the task has read
    pc,         \* where the forwarding task is
    buf,        \* the reassembly buffer
    lines,      \* lines of the drained event still to visit
    sent_role,  \* the role flag
    pending,    \* the item of the send the task is awaiting
    chan,       \* the bridge channel
    rx,         \* the receiving end: "open", "ended" (saw the end), "dropped"
    pushed,     \* every item a send has put into the channel, in order
    delivered,  \* every item the outbound body has received, in order
    exit,       \* how the task ended
    send_err,   \* a send has returned an error
    chunks,     \* passthrough: the chunks the upstream has delivered, in order
    split       \* the upstream has delivered a chunk that ended before the
                \* end of its stream

\* The handler of one inbound HTTP request.
VARIABLES
    cfg,        \* AppState and what the process finds around it: the bypass
                \* flag, the bearer token, the provider's wire kind, the
                \* credentials on disk, the configured instructions, the build
    req,        \* the inbound request: route, Authorization header, body
    reply,      \* what the upstream answers to a request that reaches it
    hpc,        \* where the handler is
    hbody,      \* the body the handler builds for the upstream
    resp,       \* the response of the handler
    effects,    \* what the handler has done outside itself, in order
    sent,       \* the bodies of the requests sent upstream, in order
    hdrs        \* the headers the handler attached to them, in order

\* The process (run_main).
VARIABLES
    cli,        \* the command line: host, no_auth, token
    boot        \* where run_main is

\* The session browser of the terminal UI and its cache of titles
\* (tui/src/bottom_pane/session_resume_popup.rs).
VARIABLES
    cache,      \* TITLE_CACHE: the map, the recency queue, the capacity
    files,      \* the rollout files: the mtime and the content of each
    clock,      \* the clock the file system stamps modifications with
    calls,      \* the calls of extract_title_cached, one per thread
    last        \* the last operation on the cache alone, and its result

cvars == <<cache, files, clock, calls, last>>

bvars == <<cli, boot>>

svars == <<input, pos, pc, buf, lines, sent_role, pending, chan, rx, pushed,
           delivered, exit, send_err, chunks, split>>

hvars == <<cfg, req, reply, hpc, hbody, resp, effects, sent, hdrs, cli, boot,
           cache, files, clock, calls, last>>

vars == <<input, pos, pc, buf, lines, sent_role, pending, chan, rx, pushed,
          delivered, exit, send_err, chunks, split,
          cfg, req, reply, hpc, hbody, resp, effects, sent, hdrs, cli, boot,
          cache, files, clock, calls, last>>

Mode(i) == ModeOf(input[i].surface, input[i].wire_api)

Stamp(i) == [cc_id |-> input[i].cc_id, created |-> input[i].created,
             model |-> input[i].model]

Stream(i) == input[i].stream

\* the session browser is not part of the server
CacheIdle ==
    /\ cache = "none" /\ files = "none" /\ clock = 0
    /\ calls = "none" /\ last = "none"

\* no inbound request is being handled
HttpIdle ==
    /\ CacheIdle
    /\ cfg = "none" /\ req = "none" /\ reply = "none"
    /\ hpc = "idle" /\ hbody = "none" /\ resp = "none"
    /\ effects = <<>> /\ sent = <<>> /\ hdrs = <<>>
    /\ cli = "none" /\ boot = "none"

\* the state in which tokio::spawn starts the task (lib.rs 741-748, 268-271)
InitWith(S1, S2) ==
    /\ input \in {[i \in Sessions |-> IF i = "s1" THEN x ELSE y] : x \in S1, y \in S2}
    /\ pos = [i \in Sessions |-> 0]
    /\ pc = [i \in Sessions |-> IF input[i] = Absent THEN "absent" ELSE "next"]
    /\ buf = [i \in Sessions |-> <<>>]
    /\ lines = [i \in Sessions |-> <<>>]
    /\ sent_role = [i \in Sessions |-> FALSE]
    /\ pending = [i \in Sessions |-> NoItem]
    /\ chan = [i \in Sessions |-> <<>>]
    /\ rx = [i \in Sessions |-> IF input[i] = Absent THEN "none" ELSE "open"]
    /\ pushed = [i \in Sessions |-> <<>>]
    /\ delivered = [i \in Sessions |-> <<>>]
    /\ exit = [i \in Sessions |-> "running"]
    /\ send_err = [i \in Sessions |-> FALSE]
    /\ chunks = [i \in Sessions |-> <<>>]
    /\ split = [i \in Sessions |-> FALSE]

Init == InitWith(TranslatingInputs \cup PassthroughInputs, {Absent}) /\ HttpIdle

\* Streams long enough to fill the channel: one delta frame more than the
\* translating channel holds and then a completed frame, delivered in chunks
\* of at most two frames; one chunk more than the passthrough channel holds,
\* delivered run by run.
LongScript ==
    [k \in 1..(TranslatingCapacity + 1) |-> [line |-> "delta_a", sep |-> "end"]]
        \o <<[line |-> "completed", sep |-> "end"]>>

LongRaw == [k \in 1..(PassthroughCapacity + 1) |-> "x"]

LongInputs ==
    {TranslatingInput(LongScript, 2 * Len(Encode(<<LongScript[1]>>))),
     PassthroughInput("chat", "Chat", LongRaw, 1),
     PassthroughInput("responses", "Responses", LongRaw, 1)}

InitSaturated == InitWith(LongInputs, {Absent}) /\ HttpIdle

\* Streams of an upstream that never ends: once the client has left, the
\* upstream delivers its script over and over.  Every script ends with a
\* blank line, so the buffer does not grow from round to round.
LiveInputs ==
    {TranslatingInput(sc, Len(Encode(sc))) :
        sc \in {t \in Scripts : /\ Len(t) \in 1..MaxLiveLines
                                /\ t[Len(t)].sep = "end"}}
    \cup {x \in PassthroughInputs : Len(x.stream) > 0}

InitLive == InitWith(LiveInputs, {Absent}) /\ HttpIdle

\* Streams in which the upstream sends a [DONE] of its own among its
\* events, and the same bytes on a passthrough session.
DoneScripts ==
    UNION {{sc \in [1..n -> [line : {"done", "delta_a", "completed"},
                             sep : {"cont", "end", "open"}]] :
                \A k \in 1..(n - 1) : sc[k].sep # "open"} : n \in 0..MaxLines}

DoneInputs ==
    {TranslatingInput(sc, Max(1, Len(Encode(sc)))) : sc \in DoneScripts}
    \cup {PassthroughInput("chat", "Chat", LineBytes("done") \o <<NL, NL>>, 4)}

InitDone == InitWith(DoneInputs, {Absent}) /\ HttpIdle

\* Streams with lines the translating task has no use for: an event with
\* another tag, a line that does not start with "data: ", a payload that is
\* not JSON and one that is not UTF-8.
IgnoredKinds == {"other", "nodata", "badjson", "badutf8"}

IgnoredScripts ==
    UNION {{sc \in [1..n -> [line : IgnoredKinds \cup {"delta_a", "completed"},
                             sep : {"cont", "end", "open"}]] :
                \A k \in 1..(n - 1) : sc[k].sep # "open"} : n \in 0..MaxIgnoredLines}

IgnoredInputs ==
    {TranslatingInput(sc, Max(1, Len(Encode(sc)))) : sc \in IgnoredScripts}
    \cup {PassthroughInput("chat", "Chat", LineBytes("nodata") \o <<NL, NL>>, 5)}

InitIgnored == InitWith(IgnoredInputs, {Absent}) /\ HttpIdle

\* Two sessions at once: each has a stream of its own, and the second has
\* an id, a time and a model of its own.
TwoScripts(delta) ==
    UNION {[1..n -> [line : {delta, "completed"}, sep : {"end"}]] :
              n \in 0..MaxTwoLines}

FirstInputs ==
    {TranslatingInput(sc, Max(1, Len(Encode(sc)))) : sc \in TwoScripts("delta_a")}

SecondInputs ==
    {[TranslatingInput(sc, Max(1, Len(Encode(sc))))
         EXCEPT !.cc_id = "chatcmpl-2", !.created = 1700000001, !.model = "gpt-x"] :
        sc \in TwoScripts("delta_b")}
    \cup {PassthroughInput("responses", "Responses", <<"x", NL>>, 2)}

InitTwo == InitWith(FirstInputs, SecondInputs) /\ HttpIdle

SetTask(i, st) ==
    /\ pc' = [pc EXCEPT ![i] = st.pc]
    /\ buf' = [buf EXCEPT ![i] = st.buf]
    /\ lines' = [lines EXCEPT ![i] = st.lines]
    /\ sent_role' = [sent_role EXCEPT ![i] = st.sent_role]
    /\ pending' = [pending EXCEPT ![i] = st.pending]

Finish(i, how) ==
    /\ pc' = [pc EXCEPT ![i] = "done"]
    /\ exit' = [exit EXCEPT ![i] = how]
    /\ pending' = [pending EXCEPT ![i] = NoItem]

\* a channel without a bound
CanSendUnbounded(i) == rx[i] = "open"

\* tx.send(..).await returns Ok: the receiver is alive and a slot is free
CanSend(i) == rx[i] = "open" /\ Len(chan[i]) < ChannelCapacity(Mode(i))

\* a send that never sees the receiver go
SendNeverFails(i) == FALSE

\* tx.send(..).await returns Err: the receiver is gone
SendFails(i) == rx[i] = "dropped"

\* one channel for all the sessions: every receiver gets every item
PushToAll(i) ==
    /\ chan' = [j \in Sessions |-> Append(chan[j], pending[i])]
    /\ pushed' = [j \in Sessions |-> Append(pushed[j], pending[i])]

Push(i) ==
    /\ chan' = [chan EXCEPT ![i] = Append(chan[i], pending[i])]
    /\ pushed' = [pushed EXCEPT ![i] = Append(pushed[i], pending[i])]

\* return after the two final sends (lib.rs 798), taken by a task that
\* instead goes on with the rest of the event and of the buffer
ReturnAfterTerminatorMissing(i) ==
    /\ SetTask(i, Advance(Stamp(i), buf[i], lines[i], sent_role[i]))
    /\ UNCHANGED exit

\* return after the two final sends (lib.rs 798)
ReturnAfterTerminator(i) ==
    /\ Finish(i, "completed")
    /\ UNCHANGED <<buf, lines, sent_role>>

\* a task that drops the error of every send and goes on
GoOnAfterSendError(i) ==
    /\ IF Mode(i) = "translating"
       THEN SetTask(i, Advance(Stamp(i), buf[i], lines[i], sent_role[i]))
       ELSE /\ pc' = [pc EXCEPT ![i] = "next"]
            /\ pending' = [pending EXCEPT ![i] = NoItem]
            /\ UNCHANGED <<buf, lines, sent_role>>
    /\ UNCHANGED exit

\* a failed delta send returns (lib.rs 780), a failed passthrough send
\* breaks out of the read loop (lib.rs 275-277)
ReturnOnSendError(i) ==
    /\ Finish(i, "send_failed")
    /\ UNCHANGED <<buf, lines, sent_role>>

\* a task that tells the client of the read error in a frame of its own
ErrorFrameOnReadError(i) ==
    /\ Finish(i, "read_error")
    /\ chan' = [chan EXCEPT ![i] = Append(chan[i], [kind |-> "error"])]
    /\ pushed' = [pushed EXCEPT ![i] = Append(pushed[i], [kind |-> "error"])]

\* `let Ok(bytes) = chunk else { break }` (lib.rs 750), `Err(_) => break`
\* (lib.rs 279, 421): the loop ends and with it the task; nothing is sent
BreakOnReadError(i) ==
    /\ Finish(i, "read_error")
    /\ UNCHANGED <<chan, pushed>>

\* a passthrough task that sends the chunk without its newlines
ForwardedWithoutNewlines(bytes) ==
    [kind |-> "bytes", bytes |-> SelectSeq(bytes, LAMBDA r : r # NL)]

\* tx.send(Ok(bytes)): the item is the chunk as it came (lib.rs 275, 417)
Forwarded(bytes) == [kind |-> "bytes", bytes |-> bytes]

(***************************************************************************)
(* The forwarding task.                                                    *)
(***************************************************************************)
\* upstream.next().await yields Ok(bytes): translating (lib.rs 749-804)
RecvChunkTranslating(i) ==
    /\ pc[i] = "next" /\ Mode(i) = "translating"
    /\ pos[i] < Len(Stream(i))
    /\ \E k \in 1..Min(input[i].mtu, Len(Stream(i)) - pos[i]) :
          LET bytes == SubSeq(Stream(i), pos[i] + 1, pos[i] + k)
          IN  /\ pos' = [pos EXCEPT ![i] = pos[i] + k]
              /\ split' = [split EXCEPT ![i] = @ \/ pos[i] + k < Len(Stream(i))]
              /\ SetTask(i, Advance(Stamp(i), Extend(buf[i], bytes), <<>>, sent_role[i]))
    /\ UNCHANGED <<input, chan, rx, pushed, delivered, exit, send_err, chunks>>
    /\ UNCHANGED hvars

\* upstream.next().await yields Ok(bytes): passthrough (lib.rs 272-275)
RecvChunkPassthrough(i) ==
    /\ pc[i] = "next" /\ Mode(i) = "passthrough"
    /\ pos[i] < Len(Stream(i))
    /\ \E k \in 1..Min(input[i].mtu, Len(Stream(i)) - pos[i]) :
          LET bytes == SubSeq(Stream(i), pos[i] + 1, pos[i] + k)
          IN  /\ pos' = [pos EXCEPT ![i] = pos[i] + k]
              /\ pc' = [pc EXCEPT ![i] = "send"]
              /\ pending' = [pending EXCEPT ![i] = Forwarded(bytes)]
              /\ chunks' = [chunks EXCEPT ![i] = Append(@, bytes)]
              /\ split' = [split EXCEPT ![i] = @ \/ pos[i] + k < Len(Stream(i))]
    /\ UNCHANGED <<input, buf, lines, sent_role, chan, rx, pushed, delivered,
                   exit, send_err>>
    /\ UNCHANGED hvars

\* a task that, when the upstream ends, dispatches what is left in the
\* buffer as if a blank line had ended it
EndOfStreamFlushes(i) ==
    /\ pc[i] = "next"
    /\ pos[i] = Len(Stream(i))
    /\ IF Mode(i) = "translating" /\ buf[i] # <<>>
       THEN /\ SetTask(i, Advance(Stamp(i), <<>>, SplitLines(buf[i]), sent_role[i]))
            /\ UNCHANGED exit
       ELSE /\ Finish(i, "eos")
            /\ UNCHANGED <<buf, lines, sent_role>>
    /\ UNCHANGED <<input, pos, chan, rx, pushed, delivered, send_err, chunks, split>>
    /\ UNCHANGED hvars

\* upstream.next().await yields None: the while loop ends, the task returns
EndOfStream(i) ==
    /\ pc[i] = "next"
    /\ pos[i] = Len(Stream(i))
    /\ Finish(i, "eos")
    /\ UNCHANGED <<input, pos, buf, lines, sent_role, chan, rx, pushed,
                   delivered, send_err, chunks, split>>
    /\ UNCHANGED hvars

\* upstream.next().await yields Err: break (lib.rs 750, 279)
ReadError(i) ==
    /\ pc[i] = "next"
    /\ BreakOnReadError(i)
    /\ UNCHANGED <<input, pos, buf, lines, sent_role, rx, delivered, send_err,
                   chunks, split>>
    /\ UNCHANGED hvars

\* the send of a delta frame succeeds and the loop goes on (lib.rs 780)
SendDelta(i) ==
    /\ pc[i] = "send" /\ Mode(i) = "translating"
    /\ CanSend(i)
    /\ Push(i)
    /\ SetTask(i, Advance(Stamp(i), buf[i], lines[i], sent_role[i]))
    /\ UNCHANGED <<input, pos, rx, delivered, exit, send_err, chunks, split>>
    /\ UNCHANGED hvars

\* the send of a chunk succeeds (lib.rs 275)
SendRaw(i) ==
    /\ pc[i] = "send" /\ Mode(i) = "passthrough"
    /\ CanSend(i)
    /\ Push(i)
    /\ pc' = [pc EXCEPT ![i] = "next"]
    /\ pending' = [pending EXCEPT ![i] = NoItem]
    /\ UNCHANGED <<input, pos, buf, lines, sent_role, rx, delivered, exit, send_err, chunks, split>>
    /\ UNCHANGED hvars

\* the send of the final chunk succeeds (lib.rs 796)
SendFinal(i) ==
    /\ pc[i] = "send_s1"
    /\ CanSend(i)
    /\ Push(i)
    /\ pc' = [pc EXCEPT ![i] = "send_s2"]
    /\ pending' = [pending EXCEPT ![i] = SseDone]
    /\ UNCHANGED <<input, pos, buf, lines, sent_role, rx, delivered, exit, send_err, chunks, split>>
    /\ UNCHANGED hvars

\* the send of the terminator succeeds and the task returns (lib.rs 797-798)
SendDone(i) ==
    /\ pc[i] = "send_s2"
    /\ CanSend(i)
    /\ Push(i)
    /\ ReturnAfterTerminator(i)
    /\ UNCHANGED <<input, pos, rx, delivered, send_err, chunks, split>>
    /\ UNCHANGED hvars

\* the send of a delta frame or of a chunk returns Err (lib.rs 780, 275)
SendFail(i) ==
    /\ pc[i] = "send"
    /\ SendFails(i)
    /\ send_err' = [send_err EXCEPT ![i] = TRUE]
    /\ ReturnOnSendError(i)
    /\ UNCHANGED <<input, pos, chan, rx, pushed, delivered, chunks, split>>
    /\ UNCHANGED hvars

\* the send of the final chunk returns Err, which `let _ =` drops: the
\* terminator is sent next (lib.rs 796-797)
SendFinalFail(i) ==
    /\ pc[i] = "send_s1"
    /\ SendFails(i)
    /\ send_err' = [send_err EXCEPT ![i] = TRUE]
    /\ pc' = [pc EXCEPT ![i] = "send_s2"]
    /\ pending' = [pending EXCEPT ![i] = SseDone]
    /\ UNCHANGED <<input, pos, buf, lines, sent_role, chan, rx, pushed, delivered,
                   exit, chunks, split>>
    /\ UNCHANGED hvars

\* the send of the terminator returns Err, which `let _ =` drops, and the
\* task returns (lib.rs 797-798)
SendDoneFail(i) ==
    /\ pc[i] = "send_s2"
    /\ SendFails(i)
    /\ send_err' = [send_err EXCEPT ![i] = TRUE]
    /\ ReturnAfterTerminator(i)
    /\ UNCHANGED <<input, pos, chan, rx, pushed, delivered, chunks, split>>
    /\ UNCHANGED hvars

(***************************************************************************)
(* The outbound body (Body::from_stream(ReceiverStream::new(rx))) and the  *)
(* client behind it.                                                       *)
(***************************************************************************)
\* the body is polled and takes the oldest item
ConsumerRecv(i) ==
    /\ rx[i] = "open"
    /\ chan[i] # <<>>
    /\ delivered' = [delivered EXCEPT ![i] = Append(delivered[i], Head(chan[i]))]
    /\ chan' = [chan EXCEPT ![i] = Tail(chan[i])]
    /\ UNCHANGED <<input, pos, pc, buf, lines, sent_role, pending, rx, pushed,
                   exit, send_err, chunks, split>>
    /\ UNCHANGED hvars

\* the channel is empty and its sender is gone: the body ends
ConsumerEnd(i) ==
    /\ rx[i] = "open"
    /\ chan[i] = <<>>
    /\ pc[i] = "done"
    /\ rx' = [rx EXCEPT ![i] = "ended"]
    /\ UNCHANGED <<input, pos, pc, buf, lines, sent_role, pending, chan, pushed,
                   delivered, exit, send_err, chunks, split>>
    /\ UNCHANGED hvars

\* the client goes away: the body and with it the receiver are dropped, and
\* what the channel still held is dropped with them
ClientDisconnect(i) ==
    /\ rx[i] = "open"
    /\ rx' = [rx EXCEPT ![i] = "dropped"]
    /\ chan' = [chan EXCEPT ![i] = <<>>]
    /\ UNCHANGED <<input, pos, pc, buf, lines, sent_role, pending, pushed,
                   delivered, exit, send_err, chunks, split>>
    /\ UNCHANGED hvars

Next ==
    \E i \in Sessions :
        \/ RecvChunkTranslating(i)
        \/ RecvChunkPassthrough(i)
        \/ EndOfStream(i)
        \/ ReadError(i)
        \/ SendDelta(i)
        \/ SendRaw(i)
        \/ SendFinal(i)
        \/ SendDone(i)
        \/ SendFail(i)
        \/ SendFinalFail(i)
        \/ SendDoneFail(i)
        \/ ConsumerRecv(i)
        \/ ConsumerEnd(i)
        \/ ClientDisconnect(i)

Spec == Init /\ [][Next]_vars

SpecDone == InitDone /\ [][Next]_vars

SpecIgnored == InitIgnored /\ [][Next]_vars

SpecTwo == InitTwo /\ [][Next]_vars

\* the upstream of a client that has left has more to deliver
UpstreamGoesOn(i) ==
    /\ pc[i] = "next"
    /\ rx[i] = "dropped"
    /\ pos[i] = Len(Stream(i))
    /\ pos' = [pos EXCEPT ![i] = 0]
    /\ UNCHANGED <<input, pc, buf, lines, sent_role, pending, chan, rx, pushed,
                   delivered, exit, send_err, chunks, split>>
    /\ UNCHANGED hvars

\* the steps of the forwarding task under an upstream that neither ends
\* nor fails
TaskStep(i) ==
    \/ RecvChunkTranslating(i)
    \/ RecvChunkPassthrough(i)
    \/ UpstreamGoesOn(i)
    \/ SendDelta(i)
    \/ SendRaw(i)
    \/ SendFinal(i)
    \/ SendDone(i)
    \/ SendFail(i)
    \/ SendFinalFail(i)
    \/ SendDoneFail(i)

NextLive ==
    \E i \in Sessions :
        \/ TaskStep(i)
        \/ ConsumerRecv(i)
        \/ ConsumerEnd(i)
        \/ ClientDisconnect(i)

\* the runtime runs a task that can go on, and the upstream delivers
SpecLive ==
    InitLive /\ [][NextLive]_vars /\ \A i \in Sessions : WF_vars(TaskStep(i))

SpecSaturated == InitSaturated /\ [][Next]_vars

(***************************************************************************)
(* JSON values (serde_json::Value).  A string value is a TLA+ string; an   *)
(* object is a function from its keys.  Every kind of value keeps what it  *)
(* holds in a field of its own.                                            *)
(***************************************************************************)
JNull == [t |-> "null"]
JBool(b) == [t |-> "bool", b |-> b]
JNum(n) == [t |-> "num", n |-> n]
JStr(s) == [t |-> "str", s |-> s]
JArr(a) == [t |-> "arr", a |-> a]
JObj(f) == [t |-> "obj", o |-> f]
\* what Value::get returns for a key that is not there: None
JMissing == [t |-> "missing"]
\* bytes that are not JSON
NotJson == [t |-> "not_json"]

\* Value::get(key): Some only on an object that has the key
Get(j, k) == IF j.t = "obj" /\ k \in DOMAIN j.o THEN j.o[k] ELSE JMissing

\* as_str(), as_array(), as_bool() are Some
IsStr(j) == j.t = "str"
IsArr(j) == j.t = "arr"
IsBool(j) == j.t = "bool"

\* body[key] = x (IndexMut<&str> for Value): an object takes the member, null
\* becomes an object, any other value panics
CanIndexMut(j) == j.t \in {"obj", "null"}

SetKey(j, k, x) ==
    LET keys == IF j.t = "obj" THEN DOMAIN j.o ELSE {}
    IN  JObj([q \in keys \cup {k} |-> IF q = k THEN x ELSE j.o[q]])

(***************************************************************************)
(* The auth gate (lib.rs 169-183).  A header value is a sequence of bytes, *)
(* each named by a string.                                                 *)
(***************************************************************************)
None == [some |-> FALSE]
Some(x) == [some |-> TRUE, val |-> x]

BearerPrefix == <<"B", "e", "a", "r", "e", "r", " ">>

\* a byte that is not visible ASCII
NonAscii == {"0xE9"}

\* HeaderValue::to_str().ok(): None when a byte is not visible ASCII
ToStr(h) ==
    IF h.some /\ \A k \in 1..Len(h.val) : h.val[k] \notin NonAscii THEN h ELSE None

\* str::starts_with
StartsWith(h, p) == Len(h) >= Len(p) /\ SubSeq(h, 1, Len(p)) = p

\* a gate that lets everyone in when no token is configured
check_auth_open_without_token(header, state) ==
    \/ state.allow_no_auth
    \/ ~state.bearer.some
    \/ LET h == ToStr(header)
       IN  /\ h.some /\ StartsWith(h.val, BearerPrefix)
           /\ SubSeq(h.val, Len(BearerPrefix) + 1, Len(h.val)) = state.bearer.val

check_auth(header, state) ==
    IF state.allow_no_auth THEN TRUE
    ELSE IF ~state.bearer.some THEN FALSE
    ELSE LET h == ToStr(header)
         IN  /\ h.some
             /\ StartsWith(h.val, BearerPrefix)
             /\ SubSeq(h.val, Len(BearerPrefix) + 1, Len(h.val)) = state.bearer.val

(***************************************************************************)
(* Request direction: chat messages to Responses input (lib.rs 443-470).   *)
(* A message is [role, content] with any JSON value as content.            *)
(***************************************************************************)
\* if !buf.is_empty() { buf.push_str("\n") }; buf.push_str(s)
PushPart(b, s) == (IF b # "" THEN b \o "\n" ELSE b) \o s

\* the loop over the parts of an array content (lib.rs 450-459)
RECURSIVE ArrayText(_, _, _)
ArrayText(arr, k, b) ==
    IF k > Len(arr) THEN b
    ELSE LET s == Get(arr[k], "text")
         IN  IF IsStr(s)
             THEN CHOOSE r \in {ArrayText(arr, k + 1, b2) : b2 \in {PushPart(b, s.s)}} : TRUE
             ELSE ArrayText(arr, k + 1, b)

\* the match on m.content (lib.rs 447-462)
MessageText(content) ==
    CASE content.t = "str" -> content.s
      [] content.t = "arr" -> ArrayText(content.a, 1, "")
      [] OTHER -> ""

\* a mapping that makes every part an input_text
PartTypeAlwaysInput(role) == "input_text"

\* let ty = if role == "assistant" { "output_text" } else { "input_text" }
PartType(role) == IF role = "assistant" THEN "output_text" ELSE "input_text"

InputItem(m) ==
    JObj([role |-> JStr(m.role),
          content |-> JArr(<<JObj([type |-> JStr(PartType(m.role)),
                                   text |-> JStr(MessageText(m.content))])>>)])

map_chat_messages_to_responses_input(messages) ==
    JArr([k \in 1..Len(messages) |-> InputItem(messages[k])])

(***************************************************************************)
(* The body sent to a Responses provider (lib.rs 604-629, 335-350).        *)
(***************************************************************************)
\* include_str!("../../core/prompt.md")
CORE_BASE_INSTRUCTIONS == "core/prompt.md"
\* the fallback of responses() and the default of chat_to_responses_proxy_cc
ResponsesFallback == "You are Codex, a helpful coding assistant. Keep responses concise and accurate."
ChatDefault == "You are Codex, a helpful coding assistant."

\* matches!(auth.as_ref().map(|a| a.mode), Some(AuthMode::ChatGPT))
IsChatGPT(auth) == auth.some /\ auth.val.mode = "ChatGPT"

Panic == [t |-> "panic"]

\* body[k] = x, or the panic
Assign(j, k, x) ==
    IF j.t = "panic" \/ ~CanIndexMut(j) THEN Panic ELSE SetKey(j, k, x)

\* serde_json::json!({"model": .., "input": .., ..}) (lib.rs 604-612)
ChatBody(model, stream, messages) ==
    JObj([model |-> JStr(model),
          input |-> map_chat_messages_to_responses_input(messages),
          tools |-> JArr(<<>>),
          tool_choice |-> JStr("auto"),
          parallel_tool_calls |-> JBool(FALSE),
          stream |-> JBool(stream),
          include |-> JArr(<<>>)])

\* an injection that forgets store
InjectChatKeepsStore(body, auth) ==
    IF IsChatGPT(auth)
    THEN Assign(body, "instructions", JStr(CORE_BASE_INSTRUCTIONS))
    ELSE IF Get(body, "instructions").t = "missing"
         THEN Assign(body, "instructions", JStr(ChatDefault))
         ELSE body

\* lib.rs 622-629
InjectChat(body, auth) ==
    IF IsChatGPT(auth)
    THEN Assign(Assign(body, "store", JBool(FALSE)),
                "instructions", JStr(CORE_BASE_INSTRUCTIONS))
    ELSE IF Get(body, "instructions").t = "missing"
         THEN Assign(body, "instructions", JStr(ChatDefault))
         ELSE body

\* state.cfg.base_instructions.clone().unwrap_or_else(|| ..) (lib.rs 344-348)
Fallback(base_instructions) ==
    IF base_instructions.some THEN base_instructions.val ELSE ResponsesFallback

\* an insertion of the fallback that overwrites what the caller sent
EnsureInstructionsAlways(body, base_instructions) ==
    Assign(body, "instructions", JStr(Fallback(base_instructions)))

\* lib.rs 341-350: body.get("instructions") is None or is not a string
EnsureInstructions(body, base_instructions) ==
    IF body.t = "panic" THEN Panic
    ELSE IF ~IsStr(Get(body, "instructions"))
         THEN Assign(body, "instructions", JStr(Fallback(base_instructions)))
         ELSE body

\* an injection under ChatGPT auth that keeps the caller's instructions
ForceChatGPTKeepsInstructions(body, auth) ==
    IF IsChatGPT(auth) THEN Assign(body, "store", JBool(FALSE)) ELSE body

\* lib.rs 335-339
ForceChatGPT(body, auth) ==
    IF IsChatGPT(auth)
    THEN Assign(Assign(body, "store", JBool(FALSE)),
                "instructions", JStr(CORE_BASE_INSTRUCTIONS))
    ELSE body

\* lib.rs 335-350
InjectResponses(body, auth, base_instructions) ==
    EnsureInstructions(ForceChatGPT(body, auth), base_instructions)

(***************************************************************************)
(* Response direction, non-streaming (lib.rs 668-711).                     *)
(***************************************************************************)
\* u64::MAX
U64Max == 2^TokenBits - 1

\* as_u64() is Some
IsU64(j) == j.t = "num" /\ j.n >= 0 /\ j.n <= U64Max

\* .and_then(|n| n.as_u64()).unwrap_or(0)
U64OrZero(j) == IF IsU64(j) THEN j.n ELSE 0

\* v.get(k).cloned().or_else(|| v.get("response").and_then(|r| r.get(k)).cloned())
TopOrNested(v, k) ==
    IF Get(v, k).t # "missing" THEN Get(v, k) ELSE Get(Get(v, "response"), k)

IsStrEq(j, s) == j.t = "str" /\ j.s = s

\* a translation that takes the text of every part
PartTextAnyType(part) ==
    IF IsStr(Get(part, "text")) THEN Get(part, "text").s ELSE ""

\* lib.rs 679-683: what one part adds to the content
PartText(part) ==
    IF IsStrEq(Get(part, "type"), "output_text") /\ IsStr(Get(part, "text"))
    THEN Get(part, "text").s
    ELSE ""

RECURSIVE PartsText(_, _)
PartsText(parts, k) ==
    IF k > Len(parts) THEN "" ELSE PartText(parts[k]) \o PartsText(parts, k + 1)

\* lib.rs 676-686: what one output item adds to the content
ItemText(item) ==
    IF IsStrEq(Get(item, "type"), "message") /\ IsArr(Get(item, "content"))
    THEN PartsText(Get(item, "content").a, 1)
    ELSE ""

RECURSIVE ItemsText(_, _)
ItemsText(items, k) ==
    IF k > Len(items) THEN "" ELSE ItemText(items[k]) \o ItemsText(items, k + 1)

\* lib.rs 670-688
ReplyContent(v) ==
    LET found == TopOrNested(v, "output")
        output == IF found.t = "missing" THEN JArr(<<>>) ELSE found
    IN  IF IsArr(output) THEN ItemsText(output.a, 1) ELSE ""

\* usage.get("total_tokens").and_then(|n| n.as_u64())
\*     .unwrap_or(prompt_tokens + completion_tokens)
\* The sum is an argument of unwrap_or and is made before the call, whether
\* or not there is a total; a sum beyond u64::MAX panics in a build with
\* overflow checks and wraps in one without.
Total(p, c, tt, overflow_checks) ==
    IF p + c > U64Max /\ overflow_checks THEN [panic |-> TRUE, value |-> 0]
    ELSE [panic |-> FALSE,
          value |-> IF IsU64(tt) THEN tt.n ELSE (p + c) % (U64Max + 1)]

\* lib.rs 689-711: the chat.completion object, or the panic of the sum
Translate(v, model, overflow_checks) ==
    LET found == TopOrNested(v, "usage")
        usage == IF found.t = "missing" THEN JObj([k \in {} |-> JNull]) ELSE found
        prompt_tokens == U64OrZero(Get(usage, "input_tokens"))
        completion_tokens == U64OrZero(Get(usage, "output_tokens"))
        total_tokens == Total(prompt_tokens, completion_tokens,
                              Get(usage, "total_tokens"), overflow_checks)
    IN  IF total_tokens.panic THEN Panic
        ELSE JObj([id |-> JStr("chatcmpl-2"),
                   object |-> JStr("chat.completion"),
                   created |-> JNum(1700000000),
                   model |-> JStr(model),
                   choices |-> JArr(<<JObj([
                       index |-> JNum(0),
                       message |-> JObj([role |-> JStr("assistant"),
                                         content |-> JStr(ReplyContent(v))]),
                       finish_reason |-> JStr("stop")])>>),
                   usage |-> JObj([prompt_tokens |-> JNum(prompt_tokens),
                                   completion_tokens |-> JNum(completion_tokens),
                                   total_tokens |-> JNum(total_tokens.value)])])

(***************************************************************************)
(* Inbound requests, configurations and upstream answers.                  *)
(***************************************************************************)
SeqsUpTo(S, n) == UNION {[1..m -> S] : m \in 0..n}

DefaultCfg ==
    [allow_no_auth |-> TRUE, bearer |-> None, wire_api |-> "Responses",
     auth |-> None, base_instructions |-> None, model |-> "cfg-model",
     overflow_checks |-> FALSE, originator |-> "codex_cli_rs"]

\* the Authorization headers of the model and the configured tokens
Secret == <<"s">>
Headers ==
    {None,
     Some(BearerPrefix \o Secret),
     Some(BearerPrefix \o <<"w">>),
     Some(BearerPrefix \o Secret \o <<"x">>),
     Some(BearerPrefix),
     Some(Secret),
     Some(<<"b", "e", "a", "r", "e", "r", " ">> \o Secret),
     Some(<<"B", "e", "a", "r", "e", "r">> \o Secret),
     Some(BearerPrefix \o <<"s", "0xE9">>)}

Bearers == {None, Some(Secret), Some(<<"s", "0xE9">>)}

\* what CodexAuth::from_codex_home(..).ok().flatten() finds
Auths ==
    {None,
     Some([mode |-> "ApiKey", account_id |-> None]),
     Some([mode |-> "ChatGPT", account_id |-> None]),
     Some([mode |-> "ChatGPT", account_id |-> Some("acct")])}

\* message contents
TextPart(s) == JObj([type |-> JStr("text"), text |-> JStr(s)])
ImagePart == JObj([type |-> JStr("image_url"), image_url |-> JStr("u")])
ContentParts ==
    {TextPart("a"), TextPart("b"), TextPart(""), ImagePart,
     JObj([type |-> JStr("text"), text |-> JNum(1)]), JStr("c")}
ArrayContents == {JArr(a) : a \in SeqsUpTo(ContentParts, MaxParts)}
PlainContents ==
    {JStr("hi"), JStr(""), JNum(42), JNull, JBool(TRUE),
     JObj([text |-> JStr("t")]), JArr(<<TextPart("a")>>)}

MsgJson(role, content) == JObj([role |-> JStr(role), content |-> content])

\* the JSON of a chat request
ChatJson(model, stream, msgs) ==
    LET keys == {"messages"} \cup (IF model.some THEN {"model"} ELSE {})
                             \cup (IF stream.some THEN {"stream"} ELSE {})
    IN  JObj([k \in keys |->
                CASE k = "messages" -> JArr(msgs)
                  [] k = "model" -> JStr(model.val)
                  [] OTHER -> JBool(stream.val)])

HelloChat == ChatJson(Some("gpt-x"), None, <<MsgJson("user", JStr("hi"))>>)

MessageLists ==
    SeqsUpTo({MsgJson(r, c) : r \in {"user", "assistant", "system"},
                              c \in PlainContents}, MaxMsgs)
    \cup {<<MsgJson(r, c)>> : r \in {"user", "assistant"}, c \in ArrayContents}

\* bodies of a request to /v1/responses
HelloInput == JArr(<<JStr("hello")>>)
ResponsesBodies ==
    {SetKey(SetKey(JNull, "input", HelloInput), "stream", JBool(st)) :
        st \in BOOLEAN}
    \cup {JObj(f) : f \in
            {[input |-> HelloInput, instructions |-> i] :
                i \in {JStr("mine"), JStr(""), JNum(7), JNull}}
            \cup {[input |-> HelloInput, instructions |-> JStr("mine"), store |-> st] :
                st \in {JBool(TRUE), JBool(FALSE), JStr("yes")}}
            \cup {[input |-> HelloInput, store |-> JBool(TRUE)]}}
    \cup {JNull, JArr(<<>>), JStr("text"), JNum(1), JObj([k \in {} |-> JNull])}

\* upstream answers
OutPart(ty, text) == JObj([type |-> JStr(ty), text |-> text])
OutParts ==
    {OutPart("output_text", JStr("a")), OutPart("output_text", JStr("b")),
     OutPart("refusal", JStr("r")), OutPart("output_text", JNum(5)),
     JObj([text |-> JStr("n")])}
OutItem(ty, content) == JObj([type |-> JStr(ty), content |-> content])
OutItems ==
    {OutItem("message", JArr(<<OutPart("output_text", JStr("a"))>>)),
     OutItem("message", JArr(<<OutPart("output_text", JStr("b")),
                               OutPart("output_text", JStr("c"))>>)),
     OutItem("reasoning", JArr(<<OutPart("output_text", JStr("x"))>>)),
     OutItem("message", JStr("y")),
     JObj([content |-> JArr(<<OutPart("output_text", JStr("z"))>>)])}
Outputs ==
    {JArr(a) : a \in SeqsUpTo(OutItems, MaxItems)}
    \cup {JArr(<<OutItem("message", JArr(a))>>) : a \in SeqsUpTo(OutParts, MaxParts)}

\* token counts around the edges of u64, a count that is no u64, and none
TokenValues == {JMissing, JNum(0), JNum(1), JNum(U64Max - 1), JNum(U64Max), JNum(0 - 1)}
UsageJson(i, o, t) ==
    LET all == [input_tokens |-> i, output_tokens |-> o, total_tokens |-> t]
    IN  JObj([k \in {q \in DOMAIN all : all[q].t # "missing"} |-> all[k]])
Usages == {UsageJson(i, o, t) : i \in TokenValues, o \in TokenValues, t \in TokenValues}

DefaultUsage == UsageJson(JNum(1), JNum(1), JNum(2))
DefaultOutput == JArr(<<OutItem("message", JArr(<<OutPart("output_text", JStr("a"))>>))>>)

ReplyBodies ==
    {JObj([output |-> out, usage |-> DefaultUsage]) : out \in Outputs}
    \cup {JObj([output |-> DefaultOutput, usage |-> u]) : u \in Usages}
    \cup {JObj([response |-> JObj([output |-> DefaultOutput, usage |-> DefaultUsage])]),
          JObj([output |-> JNull, usage |-> JNull,
                response |-> JObj([output |-> DefaultOutput, usage |-> DefaultUsage])]),
          JObj([output |-> DefaultOutput]),
          JObj([output |-> JNull, usage |-> JNull]),
          JObj([k \in {} |-> JNull]),
          JArr(<<>>),
          NotJson}

\* the body of a streamed answer: the lines of a script, then raw bytes, in
\* chunks of at most mtu bytes
Sse(sc, raw, mtu) == [script |-> sc, raw |-> raw, mtu |-> mtu]

NoSse == Sse(<<>>, <<>>, 1)

DefaultReply ==
    [status |-> 200, body |-> JObj([output |-> DefaultOutput, usage |-> DefaultUsage]),
     sse |-> NoSse]

Request(route, header, body) == [route |-> route, header |-> header, body |-> body]

\* requests at the auth gate: every route, header, token and flag, both wire
\* kinds, bodies the extractor takes and bodies it does not
GateCases ==
    {<<[DefaultCfg EXCEPT !.allow_no_auth = a, !.bearer = b, !.wire_api = w],
       Request(r, h, body), DefaultReply>> :
        a \in BOOLEAN, b \in Bearers, w \in {"Chat", "Responses"},
        r \in {"healthz", "models", "chat", "responses"}, h \in Headers,
        body \in {HelloChat, NotJson, JObj([input |-> HelloInput])}}

\* chat requests of every shape, on both wire kinds, streaming or not
ChatCases ==
    {<<[DefaultCfg EXCEPT !.wire_api = w],
       Request("chat", None, ChatJson(None, st, msgs)), DefaultReply>> :
        w \in {"Chat", "Responses"}, st \in {None, Some(TRUE)}, msgs \in MessageLists}
    \cup {<<DefaultCfg, Request("chat", None, body), DefaultReply>> :
            body \in {JObj([messages |-> JStr("hi")]),
                      JObj([messages |-> JArr(<<JObj([role |-> JStr("user")])>>)]),
                      JObj([messages |-> JArr(<<JObj([role |-> JNum(1), content |-> JStr("hi")])>>)]),
                      JObj([messages |-> JArr(<<>>), stream |-> JStr("yes")])}}

\* requests under every kind of credentials
AuthCases ==
    {<<[DefaultCfg EXCEPT !.auth = au, !.base_instructions = bi],
       Request("responses", None, body), DefaultReply>> :
        au \in Auths, bi \in {None, Some("configured")}, body \in ResponsesBodies}
    \cup {<<[DefaultCfg EXCEPT !.auth = au, !.base_instructions = bi],
            Request("chat", None, ChatJson(None, st, <<MsgJson("user", JStr("hi"))>>)),
            DefaultReply>> :
            au \in Auths, bi \in {None, Some("configured")}, st \in {None, Some(TRUE)}}

\* upstream answers to a translated request that does not stream
ReplyCases ==
    {<<[DefaultCfg EXCEPT !.overflow_checks = oc],
       Request("chat", None, HelloChat), [status |-> st, body |-> b, sse |-> NoSse]>> :
        oc \in BOOLEAN, st \in {200, 429}, b \in ReplyBodies}

HttpCases == GateCases \cup ChatCases \cup AuthCases \cup ReplyCases

(***************************************************************************)
(* The process: run_main from the command line to axum::serve (lib.rs      *)
(* 44-88).                                                                 *)
(***************************************************************************)
\* values of --host
Hosts ==
    {"127.0.0.1", "::1", "localhost", "0.0.0.0", "192.168.1.5", "127.0.0.2",
     "[::1]", "LOCALHOST", "example.com"}

\* a check that takes every host for a loopback one
is_loopback_any(host) == TRUE

\* let is_loopback = cli.host == "127.0.0.1" || cli.host == "::1"
\*     || cli.host == "localhost" (lib.rs 55)
is_loopback(host) == host \in {"127.0.0.1", "::1", "localhost"}

\* format!("{}:{}", cli.host, cli.port).parse::<SocketAddr>() is Ok: the
\* host is an IPv4 address or an IPv6 address in brackets; a name is not
\* resolved and a bare IPv6 address is not taken (lib.rs 81)
ParsesAsSocketAddr(host) ==
    host \in {"127.0.0.1", "0.0.0.0", "192.168.1.5", "127.0.0.2", "[::1]"}

Cli(host, no_auth, token) == [host |-> host, no_auth |-> no_auth, token |-> token]

Clis == {Cli(h, n, t) : h \in Hosts, n \in BOOLEAN, t \in {None, Some(Secret)}}

\* AppState { cfg, bearer: cli.token.clone(), allow_no_auth: cli.no_auth }
\* (lib.rs 73-77)
AppStateOf(c, config) ==
    [config EXCEPT !.allow_no_auth = c.no_auth, !.bearer = c.token]

\* anyhow::bail!("--no-auth is only allowed when binding to localhost")
\* (lib.rs 56-58)
RefuseBypass ==
    /\ boot = "start"
    /\ cli.no_auth /\ ~is_loopback(cli.host)
    /\ boot' = "refused"
    /\ UNCHANGED <<cli, cfg, req, reply, hpc, hbody, resp, effects, sent, hdrs, cvars, svars>>

\* parse_overrides or Config::load_with_cli_overrides is Err (lib.rs 61-65)
ConfigError ==
    /\ boot = "start"
    /\ ~(cli.no_auth /\ ~is_loopback(cli.host))
    /\ boot' = "config_error"
    /\ UNCHANGED <<cli, cfg, req, reply, hpc, hbody, resp, effects, sent, hdrs, cvars, svars>>

\* the address does not parse (lib.rs 81)
AddrError ==
    /\ boot = "start"
    /\ ~(cli.no_auth /\ ~is_loopback(cli.host))
    /\ ~ParsesAsSocketAddr(cli.host)
    /\ boot' = "addr_error"
    /\ UNCHANGED <<cli, cfg, req, reply, hpc, hbody, resp, effects, sent, hdrs, cvars, svars>>

\* TcpListener::bind(addr).await is Err (lib.rs 84)
BindError ==
    /\ boot = "start"
    /\ ~(cli.no_auth /\ ~is_loopback(cli.host))
    /\ ParsesAsSocketAddr(cli.host)
    /\ boot' = "bind_error"
    /\ UNCHANGED <<cli, cfg, req, reply, hpc, hbody, resp, effects, sent, hdrs, cvars, svars>>

\* axum::serve(listener, app): the routes are served with the AppState made
\* of the configuration and the command line (lib.rs 73-84)
Serve ==
    /\ boot = "start"
    /\ ~(cli.no_auth /\ ~is_loopback(cli.host))
    /\ ParsesAsSocketAddr(cli.host)
    /\ boot' = "serving"
    /\ cfg' = AppStateOf(cli, cfg)
    /\ UNCHANGED <<cli, req, reply, hpc, hbody, resp, effects, sent, hdrs, cvars, svars>>

\* the request of the client reaches the router (lib.rs 84, 90-96)
Arrive ==
    /\ boot = "serving" /\ hpc = "idle"
    /\ hpc' = "extract"
    /\ UNCHANGED <<cli, boot, cfg, req, reply, hbody, resp, effects, sent, hdrs, cvars, svars>>

(***************************************************************************)
(* The handlers (lib.rs 113-127, 185-441, 598-732).                        *)
(***************************************************************************)
\* Json<ChatCompletionsRequest>: serde takes an object with a messages
\* array of {role: string, content: any value}, an optional string model
\* and an optional bool stream (lib.rs 129-144)
ValidMessage(m) ==
    m.t = "obj" /\ IsStr(Get(m, "role")) /\ Get(m, "content").t # "missing"

DeserializeChat(j) ==
    IF /\ j.t = "obj"
       /\ IsArr(Get(j, "messages"))
       /\ \A k \in 1..Len(Get(j, "messages").a) : ValidMessage(Get(j, "messages").a[k])
       /\ Get(j, "model").t \in {"missing", "null", "str"}
       /\ Get(j, "stream").t \in {"missing", "null", "bool"}
    THEN [ok |-> TRUE,
          model |-> IF IsStr(Get(j, "model")) THEN Some(Get(j, "model").s) ELSE None,
          stream |-> IF IsBool(Get(j, "stream")) THEN Some(Get(j, "stream").b) ELSE None,
          messages |-> [k \in 1..Len(Get(j, "messages").a) |->
                          [role |-> Get(Get(j, "messages").a[k], "role").s,
                           content |-> Get(Get(j, "messages").a[k], "content")]]]
    ELSE [ok |-> FALSE]

\* the Json extractor of the route takes the body (lib.rs 188, 305)
Extracts(r) ==
    CASE r.route = "chat" -> DeserializeChat(r.body).ok
      [] r.route = "responses" -> r.body.t # "not_json"
      [] OTHER -> TRUE

\* the messages of a chat request, serialized again
MessagesJson(messages) ==
    JArr([k \in 1..Len(messages) |-> MsgJson(messages[k].role, messages[k].content)])

\* body.model.unwrap_or_else(|| state.cfg.model.clone()) (lib.rs 194-197)
ModelOf(chat) == IF chat.model.some THEN chat.model.val ELSE cfg.model

\* body.stream.unwrap_or(false) (lib.rs 198)
StreamOf(chat) == chat.stream.some /\ chat.stream.val

\* body.get("stream").and_then(|v| v.as_bool()).unwrap_or(false) (lib.rs 322-325)
StreamOfJson(j) == IsBool(Get(j, "stream")) /\ Get(j, "stream").b

\* the request asks for a stream
Streams ==
    IF req.route = "chat" THEN StreamOf(DeserializeChat(req.body))
    ELSE StreamOfJson(req.body)

ErrorEnvelope(msg) == JObj([error |-> JObj([message |-> JStr(msg)])])

Response(status, content_type, body) ==
    [status |-> status, content_type |-> content_type, body |-> body]

\* a handler that answers 200 whatever the upstream answered
status_always_ok(code) == 200

\* StatusCode::from_u16(status.as_u16()).unwrap_or(StatusCode::BAD_GATEWAY):
\* from_u16 takes the codes from 100 to 999 (lib.rs 239-240, 287-288, 667,
\* 809)
from_u16_or_bad_gateway(code) == IF code \in 100..999 THEN code ELSE 502

\* unauthorized() (lib.rs 162-167)
unauthorized == Response(401, "application/json", ErrorEnvelope("Unauthorized"))

Respond(r) == resp' = Some(r) /\ hpc' = "done"

HttpInit ==
    /\ \E c \in HttpCases : cfg = c[1] /\ req = c[2] /\ reply = c[3]
    /\ hpc = "extract" /\ hbody = JNull /\ resp = None
    /\ effects = <<>> /\ sent = <<>> /\ hdrs = <<>>
    /\ CacheIdle
    /\ cli = Cli("127.0.0.1", cfg.allow_no_auth, cfg.bearer) /\ boot = "serving"
    /\ InitWith({Absent}, {Absent})

\* healthz() (lib.rs 113-115)
Healthz ==
    /\ hpc = "extract" /\ req.route = "healthz"
    /\ Respond(Response(200, "application/json", JObj([status |-> JStr("ok")])))
    /\ UNCHANGED <<cfg, req, reply, hbody, effects, sent, hdrs, cvars, svars, bvars>>

\* the Json extractor rejects the body: the handler, and with it
\* check_auth, is not called (lib.rs 185-189, 302-306)
RejectBody ==
    /\ hpc = "extract" /\ req.route \in {"chat", "responses"}
    /\ ~Extracts(req)
    /\ Respond(Response(IF req.body.t = "not_json" THEN 400 ELSE 422, "text/plain",
                        [t |-> "text", s |-> "json rejection"]))
    /\ UNCHANGED <<cfg, req, reply, hbody, effects, sent, hdrs, cvars, svars, bvars>>

\* if !check_auth(&headers, &state) { return unauthorized() } (lib.rs
\* 118-120, 190-192, 307-309)
Unauthorized ==
    /\ hpc = "extract" /\ req.route \in {"models", "chat", "responses"}
    /\ Extracts(req)
    /\ ~check_auth(req.header, cfg)
    /\ Respond(unauthorized)
    /\ UNCHANGED <<cfg, req, reply, hbody, effects, sent, hdrs, cvars, svars, bvars>>

\* list_models() (lib.rs 121-126)
ListModels ==
    /\ hpc = "extract" /\ req.route = "models"
    /\ check_auth(req.header, cfg)
    /\ Respond(Response(200, "application/json",
                        JObj([object |-> JStr("list"),
                              data |-> JArr(<<JObj([id |-> JStr(cfg.model),
                                                    object |-> JStr("model")])>>)])))
    /\ UNCHANGED <<cfg, req, reply, hbody, effects, sent, hdrs, cvars, svars, bvars>>

\* a handler that loads the credentials before it looks at the wire kind
ResponsesUnsupportedAfterLoad ==
    /\ hpc = "extract" /\ req.route = "responses"
    /\ Extracts(req) /\ check_auth(req.header, cfg)
    /\ cfg.wire_api # "Responses"
    /\ effects' = Append(effects, "load_auth")
    /\ Respond(Response(501, "application/json",
                        ErrorEnvelope("Provider uses Chat Completions; /v1/responses not supported for this provider")))
    /\ UNCHANGED <<cfg, req, reply, hbody, sent, hdrs, cvars, svars, bvars>>

\* responses(): the provider does not speak the Responses API (lib.rs 311-320)
ResponsesUnsupported ==
    /\ hpc = "extract" /\ req.route = "responses"
    /\ Extracts(req) /\ check_auth(req.header, cfg)
    /\ cfg.wire_api # "Responses"
    /\ Respond(Response(501, "application/json",
                        ErrorEnvelope("Provider uses Chat Completions; /v1/responses not supported for this provider")))
    /\ UNCHANGED <<cfg, req, reply, hbody, effects, sent, hdrs, cvars, svars, bvars>>

\* responses() up to the request builder: the credentials are loaded and
\* the body gets its store and instructions (lib.rs 322-350); an
\* assignment into a body that is no object panics
ResponsesBegin ==
    /\ hpc = "extract" /\ req.route = "responses"
    /\ Extracts(req) /\ check_auth(req.header, cfg)
    /\ cfg.wire_api = "Responses"
    /\ effects' = Append(effects, "load_auth")
    /\ LET b == InjectResponses(req.body, cfg.auth, cfg.base_instructions)
       IN  /\ hbody' = b
           /\ hpc' = IF b.t = "panic" THEN "panicked" ELSE "build"
    /\ UNCHANGED <<cfg, req, reply, resp, sent, hdrs, cvars, svars, bvars>>

\* chat_completions() on a Chat provider up to the request builder: the
\* payload and the credentials (lib.rs 194-219)
ChatPassthroughBegin ==
    /\ hpc = "extract" /\ req.route = "chat"
    /\ Extracts(req) /\ check_auth(req.header, cfg)
    /\ cfg.wire_api # "Responses"
    /\ LET chat == DeserializeChat(req.body)
           payload == JObj([model |-> JStr(ModelOf(chat)),
                            messages |-> MessagesJson(chat.messages)])
       IN  hbody' = IF StreamOf(chat) THEN SetKey(payload, "stream", JBool(TRUE))
                    ELSE payload
    /\ effects' = Append(effects, "load_auth")
    /\ hpc' = "build"
    /\ UNCHANGED <<cfg, req, reply, resp, sent, hdrs, cvars, svars, bvars>>

\* chat_completions() on a Responses provider, chat_to_responses_proxy_cc up
\* to the request builder (lib.rs 194-203, 604-629)
ChatTranslateBegin ==
    /\ hpc = "extract" /\ req.route = "chat"
    /\ Extracts(req) /\ check_auth(req.header, cfg)
    /\ cfg.wire_api = "Responses"
    /\ LET chat == DeserializeChat(req.body)
       IN  hbody' = InjectChat(ChatBody(ModelOf(chat), StreamOf(chat), chat.messages),
                               cfg.auth)
    /\ effects' = Append(effects, "load_auth")
    /\ hpc' = "build"
    /\ UNCHANGED <<cfg, req, reply, resp, sent, hdrs, cvars, svars, bvars>>

\* a handler that takes a failed builder for a failed authentication
BuildFailUnauthorized ==
    /\ hpc = "build"
    /\ effects' = Append(effects, "build")
    /\ Respond(unauthorized)
    /\ UNCHANGED <<cfg, req, reply, hbody, sent, hdrs, cvars, svars, bvars>>

\* create_request_builder(..).await is Err (lib.rs 228-234, 359-365, 639-645)
BuildFail ==
    /\ hpc = "build"
    /\ effects' = Append(effects, "build")
    /\ Respond(Response(502, "application/json", ErrorEnvelope("auth/config error: e")))
    /\ UNCHANGED <<cfg, req, reply, hbody, sent, hdrs, cvars, svars, bvars>>

\* create_request_builder(..).await is Ok
BuildOk ==
    /\ hpc = "build"
    /\ effects' = Append(effects, "build")
    /\ hpc' = "send"
    /\ UNCHANGED <<cfg, req, reply, hbody, resp, sent, hdrs, cvars, svars, bvars>>

\* what uuid::Uuid::new_v4() can give
Uuids == 1..MaxRequests

\* the identifiers already given to a request
UsedUuids == {hdrs[k].session_id.val : k \in {q \in 1..Len(hdrs) : hdrs[q].session_id.some}}

\* codex_core::user_agent::get_codex_user_agent(Some(&originator)): the
\* originator, then the version and the platform of the build
get_codex_user_agent(originator) == <<originator, "/", "version", " (", "os", ")">>

\* the account header: auth is there, its mode is ChatGPT and
\* get_account_id() is Some (lib.rs 375-381, 656-662)
AccountHeader(auth) ==
    IF auth.some /\ auth.val.mode = "ChatGPT" /\ auth.val.account_id.some
    THEN Some(auth.val.account_id.val) ELSE None

\* builder.header(ACCEPT, "text/event-stream") of a streaming request
\* (lib.rs 260-262, 403-405, 734-736)
AcceptHeader == IF Streams THEN Some("text/event-stream") ELSE None

\* a handler that leaves out the OpenAI-Beta header
RequestHeadersNoBeta(u) ==
    [beta |-> None, session_id |-> Some(u), originator |-> Some(cfg.originator),
     user_agent |-> Some(get_codex_user_agent(cfg.originator)),
     account |-> AccountHeader(cfg.auth), accept |-> AcceptHeader]

\* the headers a handler attaches to the builder.  responses() and
\* chat_to_responses_proxy_cc attach OpenAI-Beta, session_id, originator,
\* User-Agent and, under ChatGPT credentials with an account id,
\* chatgpt-account-id (lib.rs 367-381, 648-662); chat_completions() on a
\* Chat provider attaches none of them (lib.rs 213-264)
RequestHeaders(u) ==
    IF cfg.wire_api = "Responses"
    THEN [beta |-> Some("responses=experimental"), session_id |-> Some(u),
          originator |-> Some(cfg.originator),
          user_agent |-> Some(get_codex_user_agent(cfg.originator)),
          account |-> AccountHeader(cfg.auth), accept |-> AcceptHeader]
    ELSE [beta |-> None, session_id |-> None, originator |-> None,
          user_agent |-> None, account |-> None, accept |-> AcceptHeader]

\* the request leaves with the body and the headers of the builder
Transmit ==
    /\ sent' = Append(sent, hbody)
    /\ \E u \in Uuids \ UsedUuids : hdrs' = Append(hdrs, RequestHeaders(u))

\* a handler that sends the request again when the transport fails
RequestFailRetries ==
    /\ hpc = "send" /\ Len(sent) < 2
    /\ effects' = Append(effects, "send")
    /\ Transmit
    /\ UNCHANGED <<cfg, req, reply, hbody, hpc, resp, svars, bvars, cvars>>

\* builder.json(&body).send().await is Err (lib.rs 254-258, 396-400, 727-731
\* and the streaming branches)
RequestFail ==
    /\ hpc = "send"
    /\ effects' = Append(effects, "send")
    /\ Transmit
    /\ Respond(Response(502, "application/json", ErrorEnvelope("upstream error: e")))
    /\ UNCHANGED <<cfg, req, reply, hbody, svars, bvars, cvars>>

\* format!("chatcmpl-{}", uuid::Uuid::new_v4()) and the clock (lib.rs
\* 742-743)
Stamps ==
    {[cc_id |-> "chatcmpl-1", created |-> 1700000000],
     [cc_id |-> "chatcmpl-2", created |-> 1700000001]}

\* what the task is spawned with: the byte stream of the answer, the mode of
\* the request and, in the translating mode, the id, the time and the model
\* (lib.rs 266-271, 412-414, 739-744)
TaskInput(st) ==
    IF ModeOf(req.route, cfg.wire_api) = "translating"
    THEN [surface |-> req.route, wire_api |-> cfg.wire_api,
          script |-> reply.sse.script,
          stream |-> Encode(reply.sse.script) \o reply.sse.raw,
          mtu |-> reply.sse.mtu,
          cc_id |-> st.cc_id, created |-> st.created,
          model |-> ModelOf(DeserializeChat(req.body))]
    ELSE PassthroughInput(req.route, cfg.wire_api,
                          Encode(reply.sse.script) \o reply.sse.raw, reply.sse.mtu)

\* a handler that spawns a second task on the same answer
SpawnTaskTwice(x) ==
    /\ input' = [i \in Sessions |-> x]
    /\ pc' = [i \in Sessions |-> "next"]
    /\ rx' = [i \in Sessions |-> "open"]
    /\ UNCHANGED <<pos, buf, lines, sent_role, pending, chan, pushed, delivered,
                   exit, send_err, chunks, split>>

\* mpsc::channel(..); tokio::spawn(async move { .. }): the task starts with
\* an empty buffer, before its first upstream.next() (lib.rs 268-283,
\* 741-748)
SpawnTask(x) ==
    /\ input' = [input EXCEPT !["s1"] = x]
    /\ pc' = [pc EXCEPT !["s1"] = "next"]
    /\ rx' = [rx EXCEPT !["s1"] = "open"]
    /\ UNCHANGED <<pos, buf, lines, sent_role, pending, chan, pushed, delivered,
                   exit, send_err, chunks, split>>

\* send().await is Ok.  A streaming request spawns the forwarding task and
\* is answered at once with the body the task feeds (lib.rs 264-292,
\* 410-434, 738-815); any other goes on to read the answer.
RequestOk ==
    /\ hpc = "send"
    /\ effects' = Append(effects, "send")
    /\ Transmit
    /\ IF Streams
       THEN /\ Respond(Response(from_u16_or_bad_gateway(reply.status), "text/event-stream", [t |-> "stream"]))
            /\ \E st \in Stamps : SpawnTask(TaskInput(st))
       ELSE hpc' = "reply" /\ UNCHANGED <<resp, svars>>
    /\ UNCHANGED <<cfg, req, reply, hbody, bvars, cvars>>

\* resp.text().await is Err in a passthrough request: the text of the error
\* is the body, under the status of the upstream (lib.rs 241-252, 386-395)
ReplyReadFail ==
    /\ hpc = "reply"
    /\ ModeOf(req.route, cfg.wire_api) = "passthrough"
    /\ Respond(Response(from_u16_or_bad_gateway(reply.status), "application/json", ErrorEnvelope("e")))
    /\ UNCHANGED <<cfg, req, reply, hbody, effects, sent, hdrs, cvars, svars, bvars>>

\* resp.json().await is Err because the body cannot be read (lib.rs 721-724)
ReplyReadFailTranslate ==
    /\ hpc = "reply"
    /\ ModeOf(req.route, cfg.wire_api) = "translating"
    /\ Respond(Response(502, "application/json", ErrorEnvelope("invalid upstream json: e")))
    /\ UNCHANGED <<cfg, req, reply, hbody, effects, sent, hdrs, cvars, svars, bvars>>

\* resp.text().await of a passthrough request (lib.rs 239-253, 385-395)
ReplyPassthrough ==
    /\ hpc = "reply"
    /\ ModeOf(req.route, cfg.wire_api) = "passthrough"
    /\ Respond(Response(from_u16_or_bad_gateway(reply.status), "application/json", reply.body))
    /\ UNCHANGED <<cfg, req, reply, hbody, effects, sent, hdrs, cvars, svars, bvars>>

\* resp.json().await is Err (lib.rs 721-724)
ReplyInvalidJson ==
    /\ hpc = "reply"
    /\ ModeOf(req.route, cfg.wire_api) = "translating"
    /\ reply.body.t = "not_json"
    /\ Respond(Response(502, "application/json", ErrorEnvelope("invalid upstream json: e")))
    /\ UNCHANGED <<cfg, req, reply, hbody, effects, sent, hdrs, cvars, svars, bvars>>

\* resp.json().await is Ok(v): the chat.completion object is built and
\* returned (lib.rs 669-720), unless the sum of the token counts panics
ReplyTranslate ==
    /\ hpc = "reply"
    /\ ModeOf(req.route, cfg.wire_api) = "translating"
    /\ reply.body.t # "not_json"
    /\ LET cc == Translate(reply.body, ModelOf(DeserializeChat(req.body)),
                           cfg.overflow_checks)
       IN  IF cc.t = "panic"
           THEN hpc' = "panicked" /\ UNCHANGED resp
           ELSE Respond(Response(from_u16_or_bad_gateway(reply.status), "application/json", cc))
    /\ UNCHANGED <<cfg, req, reply, hbody, effects, sent, hdrs, cvars, svars, bvars>>

NextHttp ==
    \/ Healthz
    \/ RejectBody
    \/ Unauthorized
    \/ ListModels
    \/ ResponsesUnsupported
    \/ ResponsesBegin
    \/ ChatPassthroughBegin
    \/ ChatTranslateBegin
    \/ BuildFail
    \/ BuildOk
    \/ RequestFail
    \/ RequestOk
    \/ ReplyPassthrough
    \/ ReplyReadFail
    \/ ReplyInvalidJson
    \/ ReplyReadFailTranslate
    \/ ReplyTranslate

SpecHttp == HttpInit /\ [][NextHttp]_vars

(***************************************************************************)
(* The server from its start to the end of the request it serves: run_main, *)
(* the handler of the request and the forwarding task the handler spawns.  *)
(***************************************************************************)
ServerLineKinds == {"delta_a", "delta_b", "completed", "done"}

ServerScripts ==
    UNION {{sc \in [1..n -> [line : ServerLineKinds, sep : {"cont", "end", "open"}]] :
                \A k \in 1..(n - 1) : sc[k].sep # "open"} : n \in 0..MaxServerLines}

\* streamed answers: a script, raw bytes, and a frame with bytes after it
ServerSses ==
    {Sse(sc, <<>>, Max(1, Len(Encode(sc)))) : sc \in ServerScripts}
    \cup {Sse(<<>>, r, Max(1, Len(r))) : r \in RawStreams}
    \cup {Sse(<<[line |-> "delta_a", sep |-> "end"]>>, r, 4 + Len(r)) :
            r \in {<<NL>>, <<NL, "x">>, <<NL, NL>>}}

LocalCli == Cli("127.0.0.1", TRUE, None)

StreamChat(model) == ChatJson(model, Some(TRUE), <<MsgJson("user", JStr("hi"))>>)

\* the command line, the configuration that is loaded, the request that
\* will come and what the upstream will answer to it
BootCases ==
    {<<c, [DefaultCfg EXCEPT !.wire_api = w], Request(r, h, HelloChat), DefaultReply>> :
        c \in Clis, w \in {"Chat", "Responses"}, r \in {"models", "chat"},
        h \in {None, Some(BearerPrefix \o Secret)}}

StreamCases ==
    {<<LocalCli, DefaultCfg, Request("chat", None, StreamChat(Some("gpt-x"))),
       [DefaultReply EXCEPT !.sse = e]>> : e \in ServerSses}
    \cup {<<LocalCli, [DefaultCfg EXCEPT !.wire_api = w], Request(r, None, b),
            [DefaultReply EXCEPT !.status = st, !.sse = Sse(<<>>, raw, Max(1, Len(raw)))]>> :
            w \in {"Chat", "Responses"}, r \in {"chat", "responses"},
            b \in {StreamChat(None), StreamChat(Some("gpt-x"))},
            st \in {200, 429}, raw \in {<<>>, <<"x", NL>>, <<NL, NL, "x">>}}
    \cup {<<LocalCli, DefaultCfg, Request("chat", None, StreamChat(None)),
            [DefaultReply EXCEPT !.sse = Sse(sc, <<>>, Len(Encode(sc)))]>> :
            sc \in {<<[line |-> "delta_a", sep |-> "end"],
                      [line |-> "completed", sep |-> "end"]>>}}

PlainCases ==
    {<<LocalCli, c[1], c[2], c[3]>> : c \in AuthCases \cup ReplyCases}
    \cup {<<LocalCli, [DefaultCfg EXCEPT !.wire_api = w], Request(r, None, b),
            [DefaultReply EXCEPT !.status = st, !.body = a]>> :
            w \in {"Chat", "Responses"}, r \in {"healthz", "chat", "responses"},
            b \in {HelloChat, NotJson}, st \in {200, 500},
            a \in {DefaultReply.body, NotJson}}

ServerCases == BootCases \cup StreamCases \cup PlainCases

ServerInit ==
    /\ \E c \in ServerCases :
          /\ cli = c[1]
          /\ cfg = [c[2] EXCEPT !.allow_no_auth = FALSE, !.bearer = None]
          /\ req = c[3]
          /\ reply = c[4]
    /\ boot = "start"
    /\ hpc = "idle" /\ hbody = JNull /\ resp = None
    /\ effects = <<>> /\ sent = <<>> /\ hdrs = <<>>
    /\ CacheIdle
    /\ InitWith({Absent}, {Absent})

NextServer ==
    \/ RefuseBypass
    \/ ConfigError
    \/ AddrError
    \/ BindError
    \/ Serve
    \/ Arrive
    \/ NextHttp
    \/ Next

SpecServer == ServerInit /\ [][NextServer]_vars

\* the requests that come after the first, and the answers to them
FollowUps ==
    {<<Request("chat", None, HelloChat), DefaultReply>>,
     <<Request("responses", None, JObj([input |-> HelloInput])), DefaultReply>>,
     <<Request("models", None, HelloChat), DefaultReply>>,
     <<Request("chat", None, StreamChat(None)),
       [DefaultReply EXCEPT !.sse = Sse(<<[line |-> "delta_a", sep |-> "end"]>>, <<>>, 4)]>>}

\* axum::serve(listener, app) takes the next request when the one before is
\* answered (lib.rs 82-86)
NextRequest ==
    /\ boot = "serving" /\ hpc = "done"
    /\ Len(sent) < MaxRequests
    /\ \A i \in Sessions : input[i] = Absent
    /\ \E c \in FollowUps : req' = c[1] /\ reply' = c[2]
    /\ hpc' = "extract" /\ hbody' = JNull /\ resp' = None
    /\ effects' = <<>>
    /\ UNCHANGED <<cli, boot, cfg, sent, hdrs, cvars, svars>>

NextRequests ==
    \/ NextServer
    \/ NextRequest

\* the server and the requests it is given one after the other
SpecRequests == ServerInit /\ [][NextRequests]_vars

(***************************************************************************)
(* The cache of titles of the session browser                              *)
(* (tui/src/bottom_pane/session_resume_popup.rs 30-88, 555-583).           *)
(***************************************************************************)
\* the rollout files the browser lists
Paths == {"p1", "p2", "p3"}

\* SystemTime, as far as the model goes
Times == 0..MaxTime

\* TitleCache::new(capacity) (session_resume_popup.rs 37-43)
NewCache(capacity) == [map |-> [k \in {} |-> 0], order |-> <<>>, capacity |-> capacity]

\* self.order.iter().position(|k| k == key): the first place of the key,
\* 0 when it is not there
Position(order, key) ==
    LET hits == {n \in 1..Len(order) : order[n] = key}
    IN  IF hits = {} THEN 0 ELSE CHOOSE n \in hits : \A q \in hits : n <= q

\* self.order.remove(pos)
RemoveAt(order, n) == SubSeq(order, 1, n - 1) \o SubSeq(order, n + 1, Len(order))

\* a touch that leaves the old place of the key in the queue
touch_keeps_old(c, key) == [c EXCEPT !.order = <<key>> \o c.order]

\* touch(): the key leaves its place, if it has one, and goes to the front
\* (session_resume_popup.rs 45-50)
touch(c, key) ==
    LET n == Position(c.order, key)
        rest == IF n = 0 THEN c.order ELSE RemoveAt(c.order, n)
    IN  [c EXCEPT !.order = <<key>> \o rest]

\* self.map.remove(&key)
MapRemove(map, key) == [k \in DOMAIN map \ {key} |-> map[k]]

\* self.map.insert(key, (modified, title))
MapInsert(map, key, modified, title) ==
    [k \in DOMAIN map \cup {key} |->
        IF k = key THEN [mtime |-> modified, title |-> title] ELSE map[k]]

\* an eviction that takes the key used last
RECURSIVE evict_newest(_)
evict_newest(c) ==
    IF Cardinality(DOMAIN c.map) > c.capacity /\ c.order # <<>>
    THEN evict_newest([c EXCEPT !.order = Tail(c.order),
                                !.map = MapRemove(c.map, Head(c.order))])
    ELSE c

\* evict_if_needed(): while the map is over the capacity the key at the
\* back of the queue leaves the queue and the map (session_resume_popup.rs
\* 52-60)
RECURSIVE evict_if_needed(_)
evict_if_needed(c) ==
    IF Cardinality(DOMAIN c.map) > c.capacity /\ c.order # <<>>
    THEN evict_if_needed([c EXCEPT !.order = SubSeq(c.order, 1, Len(c.order) - 1),
                                   !.map = MapRemove(c.map, c.order[Len(c.order)])])
    ELSE c

\* a lookup that takes an entry of any age
get_if_present(c, key, modified) ==
    IF key \in DOMAIN c.map
    THEN [cache |-> touch(c, key), out |-> Some(c.map[key].title)]
    ELSE [cache |-> c, out |-> None]

\* get_if_fresh(): the title of an entry at least as new as `modified`, and
\* the key is touched; None otherwise (session_resume_popup.rs 62-72)
get_if_fresh(c, key, modified) ==
    IF key \in DOMAIN c.map /\ c.map[key].mtime >= modified
    THEN [cache |-> touch(c, key), out |-> Some(c.map[key].title)]
    ELSE [cache |-> c, out |-> None]

\* put(): insert, touch, evict (session_resume_popup.rs 74-78)
put(c, key, modified, title) ==
    evict_if_needed(touch([c EXCEPT !.map = MapInsert(c.map, key, modified, title)], key))

(***************************************************************************)
(* The cache alone, under any sequence of put and get_if_fresh.  `last`    *)
(* keeps the operation, its result, the cache before it, and for every key *)
(* the number of the last put or hit of the key.                           *)
(***************************************************************************)
Titles == {"a", "b"}

NoOp == [op |-> "none", key |-> "p1", modified |-> 0, out |-> None,
         before |-> NewCache(0), used |-> [k \in Paths |-> 0], n |-> 0]

CacheInit ==
    /\ \E capacity \in 1..MaxCapacity : cache = NewCache(capacity)
    /\ last = NoOp
    /\ files = "none" /\ clock = 0 /\ calls = "none"
    /\ InitWith({Absent}, {Absent})
    /\ cfg = "none" /\ req = "none" /\ reply = "none"
    /\ hpc = "idle" /\ hbody = "none" /\ resp = "none"
    /\ effects = <<>> /\ sent = <<>> /\ hdrs = <<>>
    /\ cli = "none" /\ boot = "none"

\* cache.put(key, modified, title)
Put ==
    /\ last.n < MaxOps
    /\ \E key \in Paths, modified \in Times, title \in Titles :
          /\ cache' = put(cache, key, modified, title)
          /\ last' = [op |-> "put", key |-> key, modified |-> modified, out |-> None,
                      before |-> cache,
                      used |-> [last.used EXCEPT ![key] = last.n + 1],
                      n |-> last.n + 1]
    /\ UNCHANGED <<files, clock, calls>>
    /\ UNCHANGED <<cfg, req, reply, hpc, hbody, resp, effects, sent, hdrs, svars, bvars>>

\* cache.get_if_fresh(key, modified)
GetIfFresh ==
    /\ last.n < MaxOps
    /\ \E key \in Paths, modified \in Times :
          LET r == get_if_fresh(cache, key, modified)
          IN  /\ cache' = r.cache
              /\ last' = [op |-> "get", key |-> key, modified |-> modified, out |-> r.out,
                          before |-> cache,
                          used |-> IF r.out.some
                                   THEN [last.used EXCEPT ![key] = last.n + 1]
                                   ELSE last.used,
                          n |-> last.n + 1]
    /\ UNCHANGED <<files, clock, calls>>
    /\ UNCHANGED <<cfg, req, reply, hpc, hbody, resp, effects, sent, hdrs, svars, bvars>>

NextCache ==
    \/ Put
    \/ GetIfFresh

SpecCache == CacheInit /\ [][NextCache]_vars

(***************************************************************************)
(* extract_title_cached under concurrent calls and modifications of the    *)
(* files (session_resume_popup.rs 555-583).  The lock of the cache is held *)
(* for get_if_fresh and for put, and not in between.  A modification gives *)
(* the file a new content and the time of the clock, which never goes      *)
(* back.                                                                   *)
(***************************************************************************)
Threads == {"t1", "t2"}

\* the files of the directory that is browsed
Browsed == {"p1", "p2"}

Content(ver, written) == [ver |-> ver, written |-> written]

\* extract_title_streaming(path): the title is made of the content the
\* file has when it is read (session_resume_popup.rs 586-700)
extract_title_streaming(content) ==
    [from_ver |-> content.ver, from_time |-> content.written]

NoTitle == [from_ver |-> 0, from_time |-> 0]

IdleCall == [pc |-> "idle", path |-> "p1", modified |-> 0, title |-> NoTitle,
             ret |-> None, hit |-> FALSE]

BrowseInit ==
    /\ \E capacity \in 1..MaxCapacity : cache = NewCache(capacity)
    /\ files = [p \in Browsed |-> [mtime |-> 0, content |-> Content(0, 0)]]
    /\ clock = 0
    /\ calls = [t \in Threads |-> IdleCall]
    /\ last = "none"
    /\ InitWith({Absent}, {Absent})
    /\ cfg = "none" /\ req = "none" /\ reply = "none"
    /\ hpc = "idle" /\ hbody = "none" /\ resp = "none"
    /\ effects = <<>> /\ sent = <<>> /\ hdrs = <<>>
    /\ cli = "none" /\ boot = "none"

Server == <<cfg, req, reply, hpc, hbody, resp, effects, sent, hdrs, svars, bvars>>

\* fs::metadata(path) and metadata.modified() are Ok: the call has the
\* mtime of the file (session_resume_popup.rs 557-565)
Stat(t) ==
    /\ calls[t].pc = "idle"
    /\ \E p \in Browsed :
          calls' = [calls EXCEPT ![t] = [IdleCall EXCEPT !.pc = "lookup", !.path = p,
                                                         !.modified = files[p].mtime]]
    /\ UNCHANGED <<cache, files, clock, last>>
    /\ UNCHANGED Server

\* cache.get_if_fresh(path, modified) under the lock: a hit returns the
\* title, a miss goes on to the extraction (session_resume_popup.rs 568-572)
Lookup(t) ==
    /\ calls[t].pc = "lookup"
    /\ LET r == get_if_fresh(cache, calls[t].path, calls[t].modified)
       IN  /\ cache' = r.cache
           /\ calls' = [calls EXCEPT ![t] =
                          IF r.out.some
                          THEN [@ EXCEPT !.pc = "idle", !.ret = r.out, !.hit = TRUE]
                          ELSE [@ EXCEPT !.pc = "extract"]]
    /\ UNCHANGED <<files, clock, last>>
    /\ UNCHANGED Server

\* extract_title_streaming(path)? without the lock: the title of the
\* content the file has now (session_resume_popup.rs 575)
Extract(t) ==
    /\ calls[t].pc = "extract"
    /\ calls' = [calls EXCEPT ![t] =
                    [@ EXCEPT !.pc = "put",
                              !.title = extract_title_streaming(files[calls[t].path].content)]]
    /\ UNCHANGED <<cache, files, clock, last>>
    /\ UNCHANGED Server

\* extract_title_streaming(path)? is None: the call returns None and the
\* cache is not written (session_resume_popup.rs 575)
ExtractNone(t) ==
    /\ calls[t].pc = "extract"
    /\ calls' = [calls EXCEPT ![t] = IdleCall]
    /\ UNCHANGED <<cache, files, clock, last>>
    /\ UNCHANGED Server

\* a call that stores the title with the mtime the file has when the title
\* is stored
StoreWithCurrentMtime(t) ==
    /\ calls[t].pc = "put"
    /\ cache' = put(cache, calls[t].path, files[calls[t].path].mtime, calls[t].title)
    /\ calls' = [calls EXCEPT ![t] = [@ EXCEPT !.pc = "idle", !.ret = Some(calls[t].title)]]
    /\ UNCHANGED <<files, clock, last>>
    /\ UNCHANGED Server

\* cache.put(path.clone(), modified, title.clone()) under the lock, with
\* the mtime read before the extraction, and Some(title) is returned
\* (session_resume_popup.rs 578-582)
Store(t) ==
    /\ calls[t].pc = "put"
    /\ cache' = put(cache, calls[t].path, calls[t].modified, calls[t].title)
    /\ calls' = [calls EXCEPT ![t] = [@ EXCEPT !.pc = "idle", !.ret = Some(calls[t].title)]]
    /\ UNCHANGED <<files, clock, last>>
    /\ UNCHANGED Server

\* a rollout file is written: a new content, stamped with the clock
Modify(p) ==
    /\ files[p].content.ver < MaxWrites
    /\ files' = [files EXCEPT ![p] = [mtime |-> clock,
                                      content |-> Content(files[p].content.ver + 1, clock)]]
    /\ UNCHANGED <<cache, clock, calls, last>>
    /\ UNCHANGED Server

\* time passes
Tick ==
    /\ clock < MaxTime
    /\ clock' = clock + 1
    /\ UNCHANGED <<cache, files, calls, last>>
    /\ UNCHANGED Server

NextBrowse ==
    \/ \E t \in Threads : Stat(t)
    \/ \E t \in Threads : Lookup(t)
    \/ \E t \in Threads : Extract(t)
    \/ \E t \in Threads : ExtractNone(t)
    \/ \E t \in Threads : Store(t)
    \/ \E p \in Browsed : Modify(p)
    \/ Tick

SpecBrowse == BrowseInit /\ [][NextBrowse]_vars

(***************************************************************************)
(* What the translating task sends when the whole stream arrives as one    *)
(* chunk and every send succeeds.                                          *)
(***************************************************************************)
RECURSIVE Drain(_, _, _)
Drain(st, t, out) ==
    IF t.pc = "next" THEN out
    ELSE IF t.pc = "send"
         THEN Drain(st, Advance(st, t.buf, t.lines, t.sent_role), Append(out, t.pending))
         ELSE out \o <<t.pending, SseDone>>

Unsplit(st, bytes) == Drain(st, Advance(st, Extend(<<>>, bytes), <<>>, FALSE), <<>>)

\* the task has returned and none of its sends has failed
CleanEnd(i) == exit[i] \in {"eos", "completed"} /\ ~send_err[i]

Active == {i \in Sessions : input[i] # Absent}
Translating == {i \in Active : Mode(i) = "translating"}
Passthrough == {i \in Active : Mode(i) = "passthrough"}

(***************************************************************************)
(* C1.  Chunk-boundary insensitivity: however the upstream byte stream is  *)
(* cut into chunks, the translating task pushes the frames it pushes for   *)
(* the unsplit stream: what it has pushed is always a prefix of them, and  *)
(* all of them once it has ended with no failed send and no read error.    *)
(***************************************************************************)
C1_ChunkBoundaryInsensitive ==
    \A i \in Translating :
        /\ IsPrefix(pushed[i], Unsplit(Stamp(i), Stream(i)))
        /\ CleanEnd(i) => pushed[i] = Unsplit(Stamp(i), Stream(i))

\* the single frame data: {"type":"response.completed"}\n\n, delivered in
\* more than one chunk, has produced one stop chunk and one [DONE]
C1_Witness ==
    \E i \in Translating :
        /\ input[i].script = <<[line |-> "completed", sep |-> "end"]>>
        /\ split[i]
        /\ CleanEnd(i)
        /\ pushed[i] = <<FinalChunk(Stamp(i)), SseDone>>

(***************************************************************************)
(* C2.  Exactly-once role tag: among the frames a translating session has  *)
(* pushed, a frame carries role="assistant" if and only if it is the first *)
(* delta frame; no later delta frame and not the stop chunk carries one.   *)
(***************************************************************************)
C2_RoleOnFirstDeltaOnly ==
    \A i \in Translating :
        \A k \in 1..Len(pushed[i]) :
            HasRole(pushed[i][k]) <=>
                /\ IsDeltaFrame(pushed[i][k])
                /\ \A j \in 1..(k - 1) : ~IsDeltaFrame(pushed[i][j])

\* a delta event without text came first and produced no frame; of the two
\* delta frames pushed after it only the first has a role
C2_Witness ==
    \E i \in Translating :
        /\ Len(input[i].script) >= 1
        /\ input[i].script[1].line = "delta_none"
        /\ Len(pushed[i]) >= 2
        /\ IsDeltaFrame(pushed[i][1]) /\ HasRole(pushed[i][1])
        /\ IsDeltaFrame(pushed[i][2]) /\ ~HasRole(pushed[i][2])

(***************************************************************************)
(* What a script makes the upstream send, event by event.                  *)
(***************************************************************************)
\* line k is part of a frame that a blank line ends
Dispatched(sc, k) == \E m \in k..Len(sc) : sc[m].sep = "end"

\* the first line that is a dispatched response.completed event; 0 if none
FirstCompleted(sc) ==
    LET hits == {k \in 1..Len(sc) : sc[k].line = "completed" /\ Dispatched(sc, k)}
    IN  IF hits = {} THEN 0 ELSE CHOOSE k \in hits : \A q \in hits : k <= q

(***************************************************************************)
(* C3.  Terminal ordering: a translating session pushes at most one stop   *)
(* chunk (empty delta, finish_reason "stop") and at most one [DONE];       *)
(* nothing follows the stop chunk but [DONE], directly, and nothing        *)
(* follows [DONE]; once both final sends are through the task has          *)
(* returned.  When the upstream sends a response.completed event and the   *)
(* task ends with no failed send and no read error, it has ended at that   *)
(* event, with the stop chunk and [DONE] as its last two frames.           *)
(***************************************************************************)
C3_TerminalOrdering ==
    \A i \in Translating :
        LET n == Len(pushed[i])
        IN  /\ \A k \in 1..n :
                /\ IsStopFrame(pushed[i][k]) =>
                      /\ pushed[i][k].body.delta = EmptyObj
                      /\ k >= n - 1
                      /\ k = n - 1 => IsDoneFrame(pushed[i][n])
                /\ IsDoneFrame(pushed[i][k]) =>
                      k = n /\ k > 1 /\ IsStopFrame(pushed[i][k - 1]) /\ pc[i] = "done"
            /\ CleanEnd(i) /\ FirstCompleted(input[i].script) # 0 =>
                /\ exit[i] = "completed"
                /\ n >= 2
                /\ IsStopFrame(pushed[i][n - 1])
                /\ IsDoneFrame(pushed[i][n])

\* a response.completed line is followed, in the same frame and in the same
\* chunk, by a delta line: the task has ended with the stop chunk and [DONE]
\* and without a delta frame
C3_Witness ==
    \E i \in Translating :
        /\ input[i].script = <<[line |-> "completed", sep |-> "cont"],
                               [line |-> "delta_a", sep |-> "end"]>>
        /\ ~split[i]
        /\ pc[i] = "done" /\ exit[i] = "completed"
        /\ pushed[i] = <<FinalChunk(Stamp(i)), SseDone>>

(***************************************************************************)
(* C4.  Order and completeness: the delta frames the outbound body has     *)
(* received carry, in upstream order, the texts of the dispatched          *)
(* response.output_text.delta events that have a text delta and precede    *)
(* the first response.completed: always a prefix of them, and all of them  *)
(* once the task has ended with no failed send and no read error and the   *)
(* body has read to the end.  What the body has received is a prefix of    *)
(* what was pushed, and while the client is there nothing pushed is lost.  *)
(***************************************************************************)
\* the texts the delta events of a script carry, up to its first
\* response.completed
RECURSIVE TextsFrom(_, _, _)
TextsFrom(sc, k, lim) ==
    IF k > lim THEN <<>>
    ELSE (IF sc[k].line \in {"delta_a", "delta_b"} /\ Dispatched(sc, k)
          THEN <<IF sc[k].line = "delta_a" THEN "a" ELSE "b">>
          ELSE <<>>) \o TextsFrom(sc, k + 1, lim)

ExpectedTexts(sc) ==
    TextsFrom(sc, 1, IF FirstCompleted(sc) = 0 THEN Len(sc) ELSE FirstCompleted(sc) - 1)

DeltaTexts(frames) ==
    LET ds == SelectSeq(frames, IsDeltaFrame)
    IN  [k \in 1..Len(ds) |-> ds[k].body.delta.content]

C4_DeltaFramesInOrder ==
    \A i \in Translating :
        /\ IsPrefix(DeltaTexts(delivered[i]), ExpectedTexts(input[i].script))
        /\ CleanEnd(i) /\ rx[i] = "ended" =>
              DeltaTexts(delivered[i]) = ExpectedTexts(input[i].script)
        /\ IsPrefix(delivered[i], pushed[i])
        /\ rx[i] # "dropped" => pushed[i] = delivered[i] \o chan[i]

\* two delta events and a completed event, each in a frame of its own, cut
\* into several chunks: the body has received a, b, the stop chunk and [DONE]
C4_Witness ==
    \E i \in Translating :
        /\ input[i].script = <<[line |-> "delta_a", sep |-> "end"],
                               [line |-> "delta_b", sep |-> "end"],
                               [line |-> "completed", sep |-> "end"]>>
        /\ split[i]
        /\ rx[i] = "ended"
        /\ DeltaTexts(delivered[i]) = <<"a", "b">>
        /\ Len(delivered[i]) = 4

(***************************************************************************)
(* C5.  Backpressure: the channel never holds more than its capacity (64   *)
(* translating, 16 passthrough), and while it is full and the body takes   *)
(* nothing, the task stays in its send: it keeps the item, reads no        *)
(* upstream chunk, drains nothing from its buffer and pushes nothing.      *)
(***************************************************************************)
Saturated(i) ==
    /\ pc[i] \in {"send", "send_s1", "send_s2"}
    /\ rx[i] = "open"
    /\ Len(chan[i]) = ChannelCapacity(Mode(i))

TaskStays(i) ==
    /\ pc'[i] = pc[i] /\ pending'[i] = pending[i]
    /\ pos'[i] = pos[i] /\ buf'[i] = buf[i] /\ lines'[i] = lines[i]
    /\ pushed'[i] = pushed[i]

C5_Backpressure ==
    /\ [](\A i \in Active : Len(chan[i]) <= ChannelCapacity(Mode(i)))
    /\ [][\A i \in Active :
            Saturated(i) /\ chan'[i] = chan[i] /\ rx'[i] = rx[i] => TaskStays(i)]_vars

\* the translating channel holds 64 frames and the task waits in the send
\* of the 65th
C5_Witness ==
    \E i \in Translating :
        /\ Saturated(i)
        /\ Len(chan[i]) = TranslatingCapacity
        /\ pc[i] = "send" /\ IsDeltaFrame(pending[i])
        /\ Len(pushed[i]) = TranslatingCapacity

\* the passthrough channel holds 16 chunks and the task waits in the send
\* of the 17th
C5_WitnessPassthrough ==
    \E i \in Passthrough :
        /\ Saturated(i)
        /\ Len(chan[i]) = PassthroughCapacity
        /\ Len(chunks[i]) = PassthroughCapacity + 1

(***************************************************************************)
(* C6, as claimed.  Once a send has failed the task has exited: it makes   *)
(* no further send and reads no further chunk.                             *)
(***************************************************************************)
C6_ExitsAtOnceOnFailedSend ==
    \A i \in Active : send_err[i] => pc[i] = "done"

(***************************************************************************)
(* C6, amended.  Once a send has failed the task pushes nothing more and   *)
(* reads no further chunk.  A failed send of a delta frame or of a         *)
(* passthrough chunk ends the task at once; a failed send of the final     *)
(* stop chunk is followed by the send of [DONE] and only then by the       *)
(* return.                                                                 *)
(***************************************************************************)
C6_NoProgressAfterFailedSend ==
    /\ [](\A i \in Active :
            send_err[i] =>
                \/ pc[i] = "done"
                \/ pc[i] = "send_s2" /\ Mode(i) = "translating" /\ pending[i] = SseDone)
    /\ [][\A i \in Active :
            send_err[i] =>
                /\ pos'[i] = pos[i] /\ buf'[i] = buf[i]
                /\ pushed'[i] = pushed[i]
                /\ pc'[i] \in {pc[i], "done"}]_vars

\* the client has left, the send of a delta frame or of a chunk has failed
\* and the task has returned with upstream bytes unread
C6_Witness ==
    /\ \E i \in Active :
        /\ send_err[i] /\ exit[i] = "send_failed" /\ pc[i] = "done"
        /\ pos[i] < Len(Stream(i))

(***************************************************************************)
(* C7, as claimed.  After the client has left, the task ends, provided the *)
(* upstream keeps delivering chunks.                                       *)
(***************************************************************************)
C7_EndsAfterDisconnect ==
    \A i \in Sessions : (rx[i] = "dropped") ~> (pc[i] = "done")

(***************************************************************************)
(* C7, amended.  After the client has left, the task ends, provided the    *)
(* upstream keeps delivering chunks that make the task send: any chunk in  *)
(* passthrough mode, and in translating mode a dispatched event that is a  *)
(* response.output_text.delta with a text delta or a response.completed.   *)
(***************************************************************************)
MakesTaskSend(i) ==
    \/ Mode(i) = "passthrough"
    \/ /\ Mode(i) = "translating"
       /\ \E k \in 1..Len(input[i].script) :
             /\ input[i].script[k].line \in {"delta_a", "delta_b", "completed"}
             /\ Dispatched(input[i].script, k)

C7_EndsAfterDisconnectIfSending ==
    \A i \in Sessions : (rx[i] = "dropped" /\ MakesTaskSend(i)) ~> (pc[i] = "done")

\* the client of a translating session left while the task was waiting for
\* the upstream; the next delta frame could not be sent and the task has
\* returned
C7_Witness ==
    \E i \in Translating :
        /\ rx[i] = "dropped" /\ delivered[i] = <<>> /\ pushed[i] = <<>>
        /\ exit[i] = "send_failed" /\ pc[i] = "done"

(***************************************************************************)
(* C8.  A failed upstream read ends the task silently: the step in which   *)
(* the read fails and every later step push nothing, neither an error      *)
(* frame nor any other, and read nothing more from the upstream (the       *)
(* request is not issued again); the channel only loses items, to the body *)
(* or with a client that leaves.  What was pushed before reaches the body  *)
(* in order: while the client is there the body can take the next item     *)
(* until the channel is empty, then it can end, and when it has ended it   *)
(* has received every pushed frame.                                        *)
(***************************************************************************)
C8_ReadErrorEndsSilently ==
    /\ [](\A i \in Active :
            exit[i] = "read_error" =>
                /\ pc[i] = "done"
                /\ IsPrefix(delivered[i], pushed[i])
                /\ rx[i] = "open" => pushed[i] = delivered[i] \o chan[i]
                /\ rx[i] = "open" /\ chan[i] # <<>> => ENABLED ConsumerRecv(i)
                /\ rx[i] = "open" /\ chan[i] = <<>> => ENABLED ConsumerEnd(i)
                /\ rx[i] = "ended" => delivered[i] = pushed[i])
    /\ [][\A i \in Active :
            exit'[i] = "read_error" =>
                /\ pushed'[i] = pushed[i]
                /\ pos'[i] = pos[i]
                /\ \/ chan'[i] = chan[i]
                   \/ chan'[i] = <<>>
                   \/ chan[i] # <<>> /\ chan'[i] = Tail(chan[i])]_vars

\* the read failed with upstream bytes outstanding; the frames pushed
\* before have all reached the body, which has ended
C8_Witness ==
    \E i \in Active :
        /\ exit[i] = "read_error"
        /\ pos[i] < Len(Stream(i))
        /\ Len(pushed[i]) >= 1
        /\ rx[i] = "ended" /\ delivered[i] = pushed[i]

(***************************************************************************)
(* The form of an outbound frame of a translating session: "data: ", then  *)
(* a chat.completion.chunk object with the session's stamp or [DONE], then *)
(* a blank line.                                                           *)
(***************************************************************************)
WellFramed(i, f) ==
    /\ f.prefix = DataPrefix
    /\ f.suffix = <<NL, NL>>
    /\ \/ f.kind = "done" /\ f.body = DoneSentinel
       \/ /\ f.kind = "json"
          /\ f.body.object = "chat.completion.chunk"
          /\ f.body.id = input[i].cc_id
          /\ f.body.created = input[i].created
          /\ f.body.model = input[i].model

EndsWithDone(frames) == frames # <<>> /\ IsDoneFrame(frames[Len(frames)])

(***************************************************************************)
(* C9, as claimed.  Every outbound frame of a translating session is       *)
(* "data: <json>\n\n" or "data: [DONE]\n\n", and when the upstream has     *)
(* ended without a read error and the client is still there, the last      *)
(* frame pushed is [DONE].                                                 *)
(***************************************************************************)
C9_AlwaysEndsWithDone ==
    \A i \in Translating :
        /\ \A k \in 1..Len(pushed[i]) : WellFramed(i, pushed[i][k])
        /\ exit[i] \in {"eos", "completed"} /\ rx[i] # "dropped" =>
              EndsWithDone(pushed[i])

(***************************************************************************)
(* C9, amended.  Every outbound frame of a translating session is          *)
(* "data: <json>\n\n" or "data: [DONE]\n\n".  When the task has ended      *)
(* without a read error and without a failed send, the last frame pushed   *)
(* is [DONE] if and only if the upstream sent a complete                   *)
(* response.completed event; an upstream that ends without one leaves the  *)
(* outbound stream without a terminator.                                   *)
(***************************************************************************)
C9_DoneOnlyAfterCompleted ==
    \A i \in Translating :
        /\ \A k \in 1..Len(pushed[i]) : WellFramed(i, pushed[i][k])
        /\ CleanEnd(i) =>
              (EndsWithDone(pushed[i]) <=> FirstCompleted(input[i].script) # 0)
        /\ exit[i] = "eos" =>
              \A k \in 1..Len(pushed[i]) : ~IsDoneFrame(pushed[i][k])

\* a delta event and a response.completed event: the body has received
\* the delta frame, the stop chunk and [DONE], and has ended
C9_Witness ==
    \E i \in Translating :
        /\ input[i].script = <<[line |-> "delta_a", sep |-> "end"],
                               [line |-> "completed", sep |-> "end"]>>
        /\ exit[i] = "completed" /\ rx[i] = "ended"
        /\ Len(delivered[i]) = 3
        /\ EndsWithDone(delivered[i])

\* the upstream ended after a delta event, without response.completed: the
\* body has ended after the delta frame
C9_WitnessNoTerminator ==
    \E i \in Translating :
        /\ input[i].script = <<[line |-> "delta_a", sep |-> "end"]>>
        /\ exit[i] = "eos" /\ rx[i] = "ended"
        /\ delivered[i] = <<DeltaFrame(Stamp(i), "a", FALSE)>>

(***************************************************************************)
(* C10.  Passthrough forwards chunk for chunk: the items pushed are the    *)
(* upstream chunks, in order and unchanged, each once; only the chunk      *)
(* whose send is awaited or has failed is not among them.  Put end to end, *)
(* the chunks are the bytes read from the upstream, all of the stream when *)
(* the upstream has ended; the reassembly buffer is never used.            *)
(***************************************************************************)
RECURSIVE Flatten(_)
Flatten(ss) == IF ss = <<>> THEN <<>> ELSE Head(ss) \o Flatten(Tail(ss))

\* the bytes of the items Ok(bytes) of a passthrough channel
BytesOf(items) == [k \in 1..Len(items) |-> items[k].bytes]

C10_PassthroughChunkForChunk ==
    \A i \in Passthrough :
        /\ \A k \in 1..Len(pushed[i]) : DOMAIN pushed[i][k] = {"kind", "bytes"}
        /\ IsPrefix(BytesOf(pushed[i]), chunks[i])
        /\ pc[i] = "next" \/ exit[i] \in {"eos", "read_error"} =>
              BytesOf(pushed[i]) = chunks[i]
        /\ pc[i] = "send" =>
              chunks[i] = BytesOf(Append(pushed[i], pending[i]))
        /\ exit[i] = "send_failed" => Len(chunks[i]) = Len(pushed[i]) + 1
        /\ Flatten(chunks[i]) = SubSeq(Stream(i), 1, pos[i])
        /\ exit[i] = "eos" => Flatten(BytesOf(pushed[i])) = Stream(i)
        /\ buf[i] = <<>> /\ lines[i] = <<>> /\ ~sent_role[i]

\* a frame whose blank line the upstream cut in two: the two chunks have
\* been pushed as they came
C10_Witness ==
    \E i \in Passthrough :
        /\ Stream(i) = <<"x", NL, NL>>
        /\ exit[i] = "eos"
        /\ BytesOf(pushed[i]) = <<(<<"x", NL>>), (<<NL>>)>>
        /\ delivered[i] = pushed[i]

(***************************************************************************)
(* Requests, as the claims about the handlers see them.                    *)
(***************************************************************************)
\* the messages of the chat request, as the caller sent them
SentMessages == Get(req.body, "messages").a

\* a chat request whose handler has built the body for a Responses provider
ChatTranslated ==
    /\ req.route = "chat" /\ cfg.wire_api = "Responses"
    /\ Len(effects) >= 1

\* the input items of the body built for the upstream
InputItems == Get(hbody, "input").a

\* the one content part of input item k
PartOf(k) == Get(InputItems[k], "content").a[1]

(***************************************************************************)
(* C11.  The N messages of a chat request become N input items in the same *)
(* order; item k has the role of message k and exactly one content part,   *)
(* of type "output_text" if and only if the role is "assistant" and of     *)
(* type "input_text" otherwise; a string content is the part's text.       *)
(***************************************************************************)
C11_MessagesToInputItems ==
    ChatTranslated =>
        /\ IsArr(Get(hbody, "input"))
        /\ Len(InputItems) = Len(SentMessages)
        /\ \A k \in 1..Len(SentMessages) :
              LET m == SentMessages[k]
                  item == InputItems[k]
              IN  /\ DOMAIN item.o = {"role", "content"}
                  /\ Get(item, "role") = Get(m, "role")
                  /\ IsArr(Get(item, "content"))
                  /\ Len(Get(item, "content").a) = 1
                  /\ DOMAIN PartOf(k).o = {"type", "text"}
                  /\ Get(PartOf(k), "type").s =
                        (IF Get(m, "role").s = "assistant"
                         THEN "output_text" ELSE "input_text")
                  /\ IsStr(Get(m, "content")) =>
                        Get(PartOf(k), "text") = Get(m, "content")

\* a user message and an assistant message, both with a string content,
\* have become an input_text item and an output_text item
C11_Witness ==
    /\ ChatTranslated /\ sent # <<>>
    /\ Len(SentMessages) = 2
    /\ SentMessages[1] = MsgJson("user", JStr("hi"))
    /\ SentMessages[2] = MsgJson("assistant", JStr(""))
    /\ Get(PartOf(1), "type").s = "input_text"
    /\ Get(PartOf(2), "type").s = "output_text"
    /\ Get(PartOf(1), "text").s = "hi"

(***************************************************************************)
(* C12.  The text of an array content is the texts of its text parts (the  *)
(* parts with a string "text"), in order, with one newline between every   *)
(* two consecutive ones, also when a text is empty; other parts add        *)
(* nothing.                                                                *)
(***************************************************************************)
\* the texts of the text parts of an array
TextsOf(arr) ==
    LET idx == {k \in 1..Len(arr) : IsStr(Get(arr[k], "text"))}
        RECURSIVE Collect(_)
        Collect(k) ==
            IF k > Len(arr) THEN <<>>
            ELSE (IF k \in idx THEN <<Get(arr[k], "text").s>> ELSE <<>>) \o Collect(k + 1)
    IN  Collect(1)

RECURSIVE JoinNewline(_)
JoinNewline(ts) ==
    IF ts = <<>> THEN ""
    ELSE IF Len(ts) = 1 THEN ts[1]
    ELSE ts[1] \o "\n" \o JoinNewline(Tail(ts))

C12_ArrayTextJoinedByNewlines ==
    ChatTranslated =>
        \A k \in 1..Len(SentMessages) :
            IsArr(Get(SentMessages[k], "content")) =>
                Get(PartOf(k), "text").s =
                    JoinNewline(TextsOf(Get(SentMessages[k], "content").a))

(***************************************************************************)
(* C13.  A chat request with a message whose content is neither a string   *)
(* nor an array is answered with an InvalidRequest error, and no request   *)
(* goes upstream for it.                                                   *)
(***************************************************************************)
HasInvalidContent ==
    /\ req.route = "chat"
    /\ IsArr(Get(req.body, "messages"))
    /\ \E k \in 1..Len(SentMessages) :
          /\ Get(SentMessages[k], "content").t \notin {"missing", "str", "arr"}

C13_InvalidContentRejected ==
    HasInvalidContent =>
        /\ sent = <<>>
        /\ resp.some =>
              /\ resp.val.status \in 400..499
              /\ resp.val.body.t = "obj"
              /\ IsStr(Get(Get(resp.val.body, "error"), "message"))

(***************************************************************************)
(* Bodies built for a Responses provider.                                  *)
(***************************************************************************)
\* the handler of a chat or responses request has loaded the credentials
\* and built the body for a Responses provider
BodyBuilt ==
    /\ req.route \in {"chat", "responses"} /\ cfg.wire_api = "Responses"
    /\ Len(effects) >= 1

\* the bodies that went upstream, and the one about to go
UpstreamBodies ==
    {sent[k] : k \in 1..Len(sent)} \cup (IF hpc \in {"build", "send"} THEN {hbody} ELSE {})

\* the injection of the surface the request came in on
InjectAgain(body) ==
    IF req.route = "chat" THEN InjectChat(body, cfg.auth)
    ELSE InjectResponses(body, cfg.auth, cfg.base_instructions)

(***************************************************************************)
(* C14.  Under ChatGPT auth every body that goes to a Responses provider,  *)
(* from the chat surface and from the responses surface, has store = false *)
(* and instructions = the base instructions, whatever the caller sent; and *)
(* the injection applied to the injected body gives the same body.         *)
(***************************************************************************)
C14_ChatGPTForcesStoreAndInstructions ==
    (BodyBuilt /\ IsChatGPT(cfg.auth)) =>
        /\ \A b \in UpstreamBodies :
              /\ Get(b, "store") = JBool(FALSE)
              /\ Get(b, "instructions") = JStr(CORE_BASE_INSTRUCTIONS)
        /\ InjectAgain(hbody) = hbody

\* a request to /v1/responses with its own instructions and store = true
\* went upstream under ChatGPT auth
C14_Witness ==
    /\ BodyBuilt /\ IsChatGPT(cfg.auth)
    /\ req.route = "responses"
    /\ Get(req.body, "instructions") = JStr("mine")
    /\ Get(req.body, "store") = JBool(TRUE)
    /\ Len(sent) = 1
    /\ Get(sent[1], "store") = JBool(FALSE)
    /\ Get(sent[1], "input") = HelloInput

\* a chat request went upstream under ChatGPT auth
C14_WitnessChat ==
    /\ BodyBuilt /\ IsChatGPT(cfg.auth)
    /\ req.route = "chat"
    /\ Len(sent) = 1
    /\ Get(sent[1], "instructions") = JStr(CORE_BASE_INSTRUCTIONS)

(***************************************************************************)
(* C15.  Under any other auth, default instructions are put in only when   *)
(* the request has no instructions that are a string: on the responses     *)
(* surface a body with string instructions is forwarded unchanged, a body  *)
(* with none, or with instructions that are not a string, gets the         *)
(* fallback (the configured base instructions if there are any); on the    *)
(* chat surface the body gets the default; and every body that goes to a   *)
(* Responses provider has instructions.                                    *)
(***************************************************************************)
C15_DefaultUnlessStringInstructions ==
    (BodyBuilt /\ ~IsChatGPT(cfg.auth)) =>
        /\ (req.route = "responses" /\ hbody.t # "panic") =>
              IF IsStr(Get(req.body, "instructions"))
              THEN hbody = req.body
              ELSE hbody = SetKey(req.body, "instructions",
                                  JStr(Fallback(cfg.base_instructions)))
        /\ req.route = "chat" => Get(hbody, "instructions") = JStr(ChatDefault)
        /\ \A b \in UpstreamBodies : IsStr(Get(b, "instructions"))

\* instructions that are a number were replaced by the fallback, and
\* the body went upstream
C15_Witness ==
    /\ BodyBuilt /\ ~IsChatGPT(cfg.auth)
    /\ req.route = "responses"
    /\ Get(req.body, "instructions") = JNum(7)
    /\ Len(sent) = 1
    /\ Get(sent[1], "instructions") = JStr(Fallback(cfg.base_instructions))

\* C15 as stated: whatever instructions the caller supplied on the
\* responses surface are forwarded unchanged
C15_CallerInstructionsUnchanged ==
    (BodyBuilt /\ ~IsChatGPT(cfg.auth)) =>
        /\ (/\ req.route = "responses" /\ hbody.t # "panic"
            /\ Get(req.body, "instructions").t # "missing") =>
              hbody = req.body
        /\ \A b \in UpstreamBodies : Get(b, "instructions").t # "missing"

(***************************************************************************)
(* The answer to a translated request that does not stream.                *)
(***************************************************************************)
RECURSIVE Concat(_)
Concat(ts) == IF ts = <<>> THEN "" ELSE Head(ts) \o Concat(Tail(ts))

IsOutputTextPart(part) ==
    /\ Get(part, "type") = JStr("output_text")
    /\ Get(part, "text").t = "str"

IsMessageItem(item) ==
    /\ Get(item, "type") = JStr("message")
    /\ Get(item, "content").t = "arr"

\* the texts of the output_text parts of the message items, item by item
OutputTexts(output) ==
    LET msgs == SelectSeq(output, IsMessageItem)
    IN  [k \in 1..Len(msgs) |->
            LET parts == SelectSeq(Get(msgs[k], "content").a, IsOutputTextPart)
            IN  Concat([q \in 1..Len(parts) |-> Get(parts[q], "text").s])]

\* the chat.completion object the handler answers with in the next state
Answer == resp'.val.body

TheChoice == Get(Answer, "choices").a[1]

(***************************************************************************)
(* C16.  The answer to a translated request that does not stream has       *)
(* exactly one choice, with index 0, role "assistant" and finish_reason    *)
(* "stop"; its content is the texts of the "output_text" parts of the      *)
(* "message" items of the upstream output array, concatenated in order     *)
(* with nothing between them; other items and other parts add nothing.     *)
(***************************************************************************)
C16_OneChoiceOfOutputTexts ==
    [][(ReplyTranslate /\ hpc' = "done") =>
          /\ IsArr(Get(Answer, "choices"))
          /\ Len(Get(Answer, "choices").a) = 1
          /\ Get(TheChoice, "index") = JNum(0)
          /\ Get(Get(TheChoice, "message"), "role") = JStr("assistant")
          /\ Get(TheChoice, "finish_reason") = JStr("stop")
          /\ IsStr(Get(Get(TheChoice, "message"), "content"))
          /\ IsArr(Get(reply.body, "output")) =>
                Get(Get(TheChoice, "message"), "content").s =
                    Concat(OutputTexts(Get(reply.body, "output").a))]_vars

\* the upstream answered with a message item of two output_text parts and
\* an item that is no message; the content is the two texts
C16_Witness ==
    /\ req.route = "chat" /\ hpc = "done" /\ resp.some
    /\ Get(reply.body, "output") =
          JArr(<<OutItem("message", JArr(<<OutPart("output_text", JStr("b")),
                                           OutPart("output_text", JStr("c"))>>)),
                 OutItem("reasoning", JArr(<<OutPart("output_text", JStr("x"))>>))>>)
    /\ IsArr(Get(resp.val.body, "choices"))
    /\ Get(Get(Get(resp.val.body, "choices").a[1], "message"), "content") = JStr("bc")

\* a part that is no output_text part was left out of the content
C16_WitnessOtherPart ==
    /\ req.route = "chat" /\ hpc = "done" /\ resp.some
    /\ Get(reply.body, "output") =
          JArr(<<OutItem("message", JArr(<<OutPart("output_text", JStr("a")),
                                           OutPart("refusal", JStr("r"))>>))>>)
    /\ IsArr(Get(resp.val.body, "choices"))
    /\ Get(Get(Get(resp.val.body, "choices").a[1], "message"), "content") = JStr("a")

(***************************************************************************)
(* C17.  The answer to a translated request that does not stream has, as   *)
(* usage.total_tokens, the upstream total_tokens if there is one, and the  *)
(* sum of the upstream input_tokens and output_tokens (0 for one that is   *)
(* missing) if there is none, for every count of 64 bits without sign,     *)
(* also when there is a total and the sum is beyond 64 bits.               *)
(***************************************************************************)
\* a token count of the upstream usage, 0 if there is none
UpstreamCount(k) ==
    LET n == Get(TopOrNested(reply.body, "usage"), k)
    IN  IF n.t = "num" /\ n.n \in 0..U64Max THEN n.n ELSE 0

\* the upstream gives a total
UpstreamTotal ==
    LET n == Get(TopOrNested(reply.body, "usage"), "total_tokens")
    IN  IF n.t = "num" /\ n.n \in 0..U64Max THEN Some(n.n) ELSE None

C17_TotalTokens ==
    [][ReplyTranslate =>
          /\ hpc' = "done"
          /\ Get(Get(Answer, "usage"), "total_tokens") =
                JNum(IF UpstreamTotal.some THEN UpstreamTotal.val
                     ELSE UpstreamCount("input_tokens") + UpstreamCount("output_tokens"))]_vars

(***************************************************************************)
(* C18.  On a provider that speaks Chat-Completions, a POST to             *)
(* /v1/responses that passes the auth gate is answered 501 with an error   *)
(* envelope, and no credentials are loaded, no request is built and none   *)
(* goes upstream.                                                          *)
(***************************************************************************)
\* a JSON body posted to /v1/responses has passed the gate
ResponsesOnChatProvider ==
    /\ req.route = "responses" /\ cfg.wire_api = "Chat"
    /\ req.body.t # "not_json"
    /\ check_auth(req.header, cfg)

IsErrorEnvelope(j) ==
    /\ j.t = "obj" /\ DOMAIN j.o = {"error"}
    /\ Get(j, "error").t = "obj" /\ DOMAIN Get(j, "error").o = {"message"}
    /\ Get(Get(j, "error"), "message").t = "str"

GateDone ==
    /\ req.route \in {"models", "chat", "responses"}
    /\ Extracts(req)
    /\ hpc # "extract"

GateRejected == resp = Some(unauthorized)

\* the header is "Bearer " followed by the configured token
HeaderIsBearerToken ==
    /\ cfg.bearer.some /\ req.header.some
    /\ req.header.val = BearerPrefix \o cfg.bearer.val

VisibleAscii(h) == \A k \in 1..Len(h) : h[k] \notin NonAscii

(***************************************************************************)
(* C19.  check_auth accepts a request if and only if the bypass flag is    *)
(* on, or a token is configured and the Authorization header is made of    *)
(* visible ASCII and is exactly "Bearer " followed by the token.  With the *)
(* bypass off and no token configured every request is rejected.           *)
(***************************************************************************)
C19_AcceptsBypassOrAsciiToken ==
    GateDone =>
        /\ ~GateRejected <=>
              \/ cfg.allow_no_auth
              \/ HeaderIsBearerToken /\ VisibleAscii(req.header.val)
        /\ ~GateRejected <=> check_auth(req.header, cfg)
        /\ (~cfg.allow_no_auth /\ ~cfg.bearer.some) => GateRejected

\* with the bypass off and a token configured, a request with the token
\* was let in
C19_Witness ==
    /\ GateDone /\ req.route = "models"
    /\ ~cfg.allow_no_auth /\ cfg.bearer = Some(Secret)
    /\ req.header = Some(BearerPrefix \o Secret)
    /\ resp.some /\ resp.val.status = 200

\* a request with another token, one with no header, and one where no
\* token is configured, were rejected
C19_WitnessRejected ==
    /\ GateDone /\ GateRejected /\ ~cfg.allow_no_auth
    /\ \/ cfg.bearer = Some(Secret) /\ req.header = Some(BearerPrefix \o <<"w">>)
       \/ cfg.bearer = Some(Secret) /\ req.header = None
       \/ cfg.bearer = None /\ req.header = Some(BearerPrefix \o Secret)

\* C19 as stated: a header that is exactly "Bearer " followed by the
\* configured token is accepted
C19_AcceptsBypassOrToken ==
    GateDone => (~GateRejected <=> (cfg.allow_no_auth \/ HeaderIsBearerToken))

(***************************************************************************)
(* C20.  A request that fails the auth gate is answered 401 with the body  *)
(* {"error":{"message":"Unauthorized"}} on /v1/models,                     *)
(* /v1/chat/completions and /v1/responses, on either wire kind and         *)
(* whatever its body, and no request goes upstream for it; /healthz is     *)
(* answered 200 with no look at the credentials.                           *)
(***************************************************************************)
C20_UnauthorizedWhateverTheBody ==
    /\ (/\ req.route \in {"models", "chat", "responses"}
        /\ ~check_auth(req.header, cfg)) =>
          /\ sent = <<>> /\ effects = <<>>
          /\ hpc \in {"extract", "done"}
          /\ hpc = "done" => resp = Some(unauthorized)
    /\ (req.route = "healthz" /\ hpc # "extract") =>
          /\ hpc = "done" /\ resp.some /\ resp.val.status = 200
          /\ resp.val.body = JObj([status |-> JStr("ok")])

\* what holds of a request that fails the gate whatever its body: nothing
\* goes upstream for it
C20_NeverUpstream ==
    (/\ req.route \in {"models", "chat", "responses"}
     /\ ~check_auth(req.header, cfg)) => sent = <<>> /\ effects = <<>>

(***************************************************************************)
(* C21.  Startup refuses to serve when the bypass flag is set and the host *)
(* to bind is not a loopback one: with such a command line run_main ends   *)
(* at its check, no request is ever taken unless the server serves, and a  *)
(* server that serves with the bypass on is bound to a loopback host.      *)
(***************************************************************************)
\* the address the listener is bound to is a loopback address
\* (127.0.0.0/8, ::1)
BindsLoopback(host) == host \in {"127.0.0.1", "127.0.0.2", "[::1]"}

\* the host names the machine itself
LoopbackHost(host) ==
    host \in {"127.0.0.1", "127.0.0.2", "::1", "[::1]", "localhost", "LOCALHOST"}

C21_NoBypassOffLoopback ==
    /\ cli.no_auth /\ ~LoopbackHost(cli.host) => boot \in {"start", "refused"}
    /\ hpc # "idle" => boot = "serving"
    /\ boot = "serving" =>
          /\ cfg.allow_no_auth = cli.no_auth
          /\ cfg.allow_no_auth => LoopbackHost(cli.host) /\ BindsLoopback(cli.host)

\* the bypass on every interface: run_main has stopped at its check
C21_Witness ==
    /\ cli.no_auth /\ cli.host = "0.0.0.0"
    /\ boot = "refused" /\ hpc = "idle"

\* the bypass on the loopback address: a request without a header is served
C21_WitnessServing ==
    /\ cli.no_auth /\ cli.host = "127.0.0.1"
    /\ boot = "serving" /\ req.route = "models" /\ req.header = None
    /\ hpc = "done" /\ resp.val.status = 200

(***************************************************************************)
(* C22.  Every inbound request causes at most one upstream request, on     *)
(* every path: the answer comes, the transport fails, the body cannot be   *)
(* parsed, the stream breaks in the middle, the client goes away.  The     *)
(* request that went upstream is the one the handler built, it went when   *)
(* the handler sent it, and nothing sends it again.                        *)
(***************************************************************************)
Sends == Len(SelectSeq(effects, LAMBDA e : e = "send"))

C22_AtMostOneUpstreamRequest ==
    /\ Len(sent) <= 1 /\ Sends = Len(sent)
    /\ sent # <<>> => sent = <<hbody>> /\ hpc \in {"reply", "done", "panicked"}
    /\ Active # {} => Len(sent) = 1

\* the stream of a translated request has broken in the middle after the
\* client had gone away: one request went upstream
C22_Witness ==
    /\ hpc = "done" /\ resp.val.status = 200
    /\ input["s1"] # Absent /\ Mode("s1") = "translating"
    /\ exit["s1"] = "read_error" /\ rx["s1"] = "dropped"
    /\ pos["s1"] > 0 /\ pos["s1"] < Len(Stream("s1"))
    /\ Len(sent) = 1

\* the transport has failed: one request was sent and the answer is 502
C22_WitnessTransport ==
    /\ hpc = "done" /\ resp.val.status = 502
    /\ resp.val.body = ErrorEnvelope("upstream error: e")
    /\ Len(sent) = 1

(***************************************************************************)
(* C23.  When the builder of the authenticated request fails, the handler  *)
(* answers 502 and never 401, with a body {"error":{"message":..}}; no     *)
(* request has gone upstream and no forwarding task exists.  This is so on *)
(* both surfaces, whether the request asks for a stream or not.            *)
(***************************************************************************)
\* the handler has returned from a failed create_request_builder
BuildFailed ==
    hpc = "done" /\ effects # <<>> /\ effects[Len(effects)] = "build"

C23_BuilderFailureIs502 ==
    BuildFailed =>
        /\ resp.some
        /\ resp.val.status = 502 /\ resp.val.status # 401
        /\ resp.val.content_type = "application/json"
        /\ IsErrorEnvelope(resp.val.body)
        /\ sent = <<>> /\ Sends = 0
        /\ \A i \in Sessions : input[i] = Absent /\ pc[i] = "absent"

\* a streaming request to /v1/responses whose builder has failed
C23_Witness ==
    /\ BuildFailed
    /\ req.route = "responses" /\ Streams
    /\ resp.val.status = 502

\* a chat request that does not stream, on a Responses provider
C23_WitnessChat ==
    /\ BuildFailed
    /\ req.route = "chat" /\ ~Streams /\ cfg.wire_api = "Responses"
    /\ resp.val.body = ErrorEnvelope("auth/config error: e")

(***************************************************************************)
(* C24.  On the path that does not stream, every failure of the transport  *)
(* to the upstream, be it the send that fails or the read of the body of   *)
(* the answer, is answered 502 with the text of the error in the body      *)
(* {"error":{"message":..}}; in the translating mode a body that has come  *)
(* but is not JSON is answered 502 with a message that is not the one of   *)
(* a failed transport.                                                     *)
(***************************************************************************)
MessageOf(r) == Get(Get(r.body, "error"), "message").s

C24_TransportFailureIs502 ==
    [][/\ (RequestFail /\ ~Streams) \/ ReplyReadFail \/ ReplyReadFailTranslate =>
            /\ resp'.some /\ resp'.val.status = 502
            /\ IsErrorEnvelope(resp'.val.body)
       /\ ReplyInvalidJson =>
            /\ resp'.some /\ resp'.val.status = 502
            /\ IsErrorEnvelope(resp'.val.body)
            /\ MessageOf(resp'.val) # "upstream error: e"]_vars

\* what holds of the failures of the path that does not stream: a failed
\* send is answered 502 with the envelope, and so is, in the translating
\* mode, a body that cannot be read or is not JSON, with another message
C24_SendFailureIs502 ==
    [][/\ (RequestFail /\ ~Streams) \/ ReplyReadFailTranslate \/ ReplyInvalidJson =>
            /\ resp'.some /\ resp'.val.status = 502
            /\ IsErrorEnvelope(resp'.val.body)
       /\ ReplyReadFailTranslate \/ ReplyInvalidJson =>
            MessageOf(resp'.val) # "upstream error: e"
       /\ ReplyReadFail =>
            /\ resp'.some /\ resp'.val.status = reply.status
            /\ IsErrorEnvelope(resp'.val.body)]_vars

(***************************************************************************)
(* C25.  A streaming request whose builder or whose send fails is answered *)
(* 502 by the handler itself and no forwarding task is ever started for    *)
(* it.  When the send succeeds exactly one task is spawned; the handler    *)
(* returns its response before the task has read anything from the        *)
(* upstream, and the task forwards after the handler has returned.         *)
(***************************************************************************)
\* the handler of a streaming request has returned
StreamingDone ==
    hpc = "done" /\ req.route \in {"chat", "responses"} /\ Extracts(req) /\ Streams

\* the send has been made and its result is Ok
Connected == StreamingDone /\ effects # <<>> /\ effects[Len(effects)] = "send"
                 /\ resp.val.content_type = "text/event-stream"

C25_OneDetachedTask ==
    /\ Cardinality(Active) <= 1
    /\ \A i \in Active :
          /\ Connected
          /\ input[i].surface = req.route /\ input[i].wire_api = cfg.wire_api
          /\ resp.val.status = reply.status /\ resp.val.body = [t |-> "stream"]
    /\ hpc # "done" => Active = {}
    /\ StreamingDone =>
          \/ Connected /\ Cardinality(Active) = 1
          \/ /\ Active = {}
             /\ resp.val.status \in {401, 501, 502}
             /\ Sends + Len(SelectSeq(effects, LAMBDA e : e = "build")) > 0 =>
                   resp.val.status = 502 /\ IsErrorEnvelope(resp.val.body)

\* the handler has returned and its task is in the middle of the stream,
\* with a frame pushed and the next chunk still to come
C25_Witness ==
    /\ Connected
    /\ Active = {"s1"} /\ Mode("s1") = "translating"
    /\ pc["s1"] = "next" /\ pos["s1"] > 0 /\ pos["s1"] < Len(Stream("s1"))
    /\ Len(pushed["s1"]) = 1 /\ delivered["s1"] = pushed["s1"]

\* the send of a streaming request has failed: 502 and no task
C25_WitnessConnect ==
    /\ StreamingDone /\ Active = {}
    /\ resp.val.body = ErrorEnvelope("upstream error: e")

(***************************************************************************)
(* C26.  A POST to /v1/responses on a Responses provider gets an HTTP      *)
(* response from the handler whatever JSON value its body is, an object,   *)
(* an array, a string, a number or null, and the request that goes         *)
(* upstream for it always has an instructions member.                      *)
(***************************************************************************)
\* an authenticated request to /v1/responses on a Responses provider
ResponsesOnResponsesProvider ==
    /\ req.route = "responses" /\ cfg.wire_api = "Responses"
    /\ req.body.t # "not_json"
    /\ check_auth(req.header, cfg)

C26_AnyJsonBodyIsAnswered ==
    ResponsesOnResponsesProvider =>
        /\ hpc # "panicked"
        /\ \A k \in 1..Len(sent) : Get(sent[k], "instructions").t = "str"

\* what holds of the bodies that are an object or null: the handler does
\* not panic and what goes upstream has its instructions
C26_ObjectOrNullIsAnswered ==
    ResponsesOnResponsesProvider /\ req.body.t \in {"obj", "null"} =>
        /\ hpc # "panicked"
        /\ \A k \in 1..Len(sent) : Get(sent[k], "instructions").t = "str"

(***************************************************************************)
(* C27.  The mode in which a request is handled is a function of its       *)
(* surface and of the wire kind of the provider, fixed for the whole       *)
(* request: a chat request on a Responses provider is translated, a chat   *)
(* request on a Chat provider and a responses request on a Responses       *)
(* provider are passed through, a responses request on a Chat provider is  *)
(* rejected.  Exactly one of the three applies to every authenticated      *)
(* request, and neither the request nor the configuration changes while    *)
(* the request is handled.                                                 *)
(***************************************************************************)
\* the request has passed the extractor and the gate
Authenticated ==
    /\ hpc \notin {"idle", "extract"}
    /\ req.route \in {"chat", "responses"}
    /\ Extracts(req) /\ check_auth(req.header, cfg)

Envelopes(msgs) == {ErrorEnvelope(m) : m \in msgs}

\* the request has been turned into a Responses request, what the task
\* pushes are frames it has made, and the answer is a chat.completion
TranslatingApplied ==
    /\ IsArr(Get(hbody, "input")) /\ Get(hbody, "messages").t = "missing"
    /\ \A i \in Active : \A k \in 1..Len(pushed[i]) :
          pushed[i][k].kind \in {"json", "done"}
    /\ hpc = "done" =>
          \/ resp.val.body = [t |-> "stream"]
          \/ resp.val.body \in Envelopes({"auth/config error: e", "upstream error: e",
                                          "invalid upstream json: e"})
          \/ Get(resp.val.body, "object") = JStr("chat.completion")

\* the request goes upstream as it came, what the task pushes are the
\* chunks of the upstream, and the answer is the body of the upstream
PassthroughApplied ==
    /\ req.route = "chat" =>
          IsArr(Get(hbody, "messages")) /\ Get(hbody, "input").t = "missing"
    /\ req.route = "responses" =>
          hbody = InjectResponses(req.body, cfg.auth, cfg.base_instructions)
    /\ \A i \in Active : \A k \in 1..Len(pushed[i]) : pushed[i][k].kind = "bytes"
    /\ hpc = "done" =>
          \/ resp.val.body = [t |-> "stream"]
          \/ resp.val.body \in Envelopes({"auth/config error: e", "upstream error: e", "e"})
          \/ resp.val.body = reply.body

\* the request is answered 501 and nothing else happens
Rejected ==
    /\ hpc = "done" /\ resp.val.status = 501
    /\ hbody = JNull /\ sent = <<>> /\ effects = <<>> /\ Active = {}

ModeApplied ==
    Authenticated =>
        /\ \A i \in Active :
              input[i].surface = req.route /\ input[i].wire_api = cfg.wire_api
        /\ CASE req.route = "chat" /\ cfg.wire_api = "Responses" ->
                    TranslatingApplied /\ ~PassthroughApplied /\ ~Rejected
             [] req.route = "chat" /\ cfg.wire_api = "Chat" ->
                    PassthroughApplied /\ ~TranslatingApplied /\ ~Rejected
             [] req.route = "responses" /\ cfg.wire_api = "Responses" ->
                    PassthroughApplied /\ ~Rejected
             [] req.route = "responses" /\ cfg.wire_api = "Chat" ->
                    Rejected /\ ~TranslatingApplied /\ ~PassthroughApplied

C27_ModeFixedPerRequest ==
    [][/\ hpc # "idle" => cfg' = cfg /\ req' = req
       /\ ModeApplied']_vars

\* a translated request that streams: the task has pushed a frame of its own
C27_Witness ==
    /\ Authenticated /\ req.route = "chat" /\ cfg.wire_api = "Responses"
    /\ hpc = "done" /\ Active = {"s1"}
    /\ Len(pushed["s1"]) > 0 /\ pushed["s1"][1].kind = "json"

\* a responses request on a Chat provider: rejected
C27_WitnessRejected ==
    /\ Authenticated /\ req.route = "responses" /\ cfg.wire_api = "Chat"
    /\ Rejected

\* a chat request on a Chat provider that streams: the chunk is passed on
C27_WitnessPassthrough ==
    /\ Authenticated /\ req.route = "chat" /\ cfg.wire_api = "Chat"
    /\ hpc = "done" /\ Active = {"s1"}
    /\ Len(pushed["s1"]) > 0 /\ pushed["s1"][1].kind = "bytes"

(***************************************************************************)
(* C28.  Whenever the translating task waits for the next chunk of the     *)
(* upstream, its buffer holds no complete frame, that is no "\n\n": it     *)
(* holds exactly the bytes that came after the last delimiter (delimiters  *)
(* taken from the left, one after the other), and every frame completed    *)
(* so far has been drained and dispatched once, no more and no less.       *)
(***************************************************************************)
\* what the task has read so far
Received(i) == SubSeq(Stream(i), 1, pos[i])

HasDelim(bytes) == \E k \in 1..(Len(bytes) - 1) : bytes[k] = NL /\ bytes[k + 1] = NL

\* the frames of a byte string, each without its delimiter, and the bytes
\* after the last of them
RECURSIVE Frames(_, _, _)
Frames(bytes, cur, done) ==
    IF bytes = <<>> THEN [frames |-> done, tail |-> cur]
    ELSE IF Len(bytes) >= 2 /\ bytes[1] = NL /\ bytes[2] = NL
         THEN Frames(SubSeq(bytes, 3, Len(bytes)), <<>>, Append(done, cur))
         ELSE Frames(Tail(bytes), Append(cur, bytes[1]), done)

\* the texts of the delta lines of a list of frames, frame by frame
RECURSIVE FrameTexts(_)
FrameTexts(fs) ==
    IF fs = <<>> THEN <<>>
    ELSE LET acts == [k \in 1..Len(SplitLines(fs[1])) |-> LineAction(SplitLines(fs[1])[k])]
             ds == SelectSeq(acts, LAMBDA a : a.act = "delta")
         IN  [k \in 1..Len(ds) |-> ds[k].text] \o FrameTexts(Tail(fs))

C28_BufferHoldsOnlyTheTail ==
    \A i \in Translating :
        pc[i] = "next" =>
            LET f == Frames(Received(i), <<>>, <<>>)
            IN  /\ ~HasDelim(buf[i])
                /\ buf[i] = f.tail
                /\ \A k \in 1..Len(pushed[i]) : IsDeltaFrame(pushed[i][k])
                /\ DeltaTexts(pushed[i]) = FrameTexts(f.frames)

\* a frame with a delta has come whole and a part of the next line after
\* it: the frame has been dispatched and the buffer holds the part
C28_Witness ==
    \E i \in Translating :
        /\ pc[i] = "next"
        /\ HasDelim(Received(i))
        /\ buf[i] = <<DataPrefix>>
        /\ Len(pushed[i]) = 1 /\ DeltaTexts(pushed[i]) = <<"a">>

\* three newlines in a row: the third stays in the buffer
C28_WitnessThreeNewlines ==
    \E i \in Translating :
        /\ pc[i] = "next"
        /\ Received(i) = LineBytes("delta_a") \o <<NL, NL, NL>>
        /\ buf[i] = <<NL>> /\ Len(pushed[i]) = 1

(***************************************************************************)
(* C29.  Every JSON frame of one translating session, each delta frame and *)
(* the stop chunk, carries the same id, the same created time and the same *)
(* model name: the ones the session was given before its task started.  No *)
(* step changes them.                                                      *)
(***************************************************************************)
\* the JSON frames a session has made so far: pushed, or about to be
JsonFrames(i) ==
    SelectSeq(pushed[i] \o <<pending[i]>>, LAMBDA f : f.kind = "json")

SameStamp(i) ==
    /\ \E st \in Stamps : input[i].cc_id = st.cc_id /\ input[i].created = st.created
    /\ input[i].model = ModelOf(DeserializeChat(req.body))
    /\ \A k \in 1..Len(JsonFrames(i)) :
          /\ JsonFrames(i)[k].body.id = input[i].cc_id
          /\ JsonFrames(i)[k].body.created = input[i].created
          /\ JsonFrames(i)[k].body.model = input[i].model
    /\ \A k \in 1..Len(delivered[i]) :
          delivered[i][k].kind = "json" =>
              /\ delivered[i][k].body.id = delivered[i][1].body.id
              /\ delivered[i][k].body.created = delivered[i][1].body.created
              /\ delivered[i][k].body.model = delivered[i][1].body.model

C29_OneStampPerSession ==
    [][/\ \A i \in Sessions : input[i] # Absent => input'[i] = input[i]
       /\ \A i \in Translating : SameStamp(i)']_vars

\* a delta frame and the stop chunk of a request that names no model: both
\* carry the second id, its time and the model of the configuration
C29_Witness ==
    \E i \in Translating :
        /\ input[i].cc_id = "chatcmpl-2" /\ input[i].model = "cfg-model"
        /\ Len(delivered[i]) = 3
        /\ IsDeltaFrame(delivered[i][1]) /\ IsStopFrame(delivered[i][2])
        /\ delivered[i][1].body.id = "chatcmpl-2"
        /\ delivered[i][2].body.id = "chatcmpl-2"
        /\ delivered[i][2].body.created = 1700000001

(***************************************************************************)
(* C30.  A "[DONE]" payload of the upstream is a no-op in the translating  *)
(* mode: it makes no outbound frame, it leaves the role flag as it is and  *)
(* it does not end the forwarding.  The delta and the completed events     *)
(* that come after it are translated as if it had not been there.          *)
(***************************************************************************)
C30_UpstreamDoneIsNoOp ==
    \A i \in Translating :
        LET sc == input[i].script
            ds == SelectSeq(pushed[i], IsDeltaFrame)
        IN  /\ IsPrefix(DeltaTexts(pushed[i]), ExpectedTexts(sc))
            /\ \A k \in 1..Len(ds) : HasRole(ds[k]) <=> k = 1
            /\ pc[i] # "done" =>
                  (sent_role[i] <=>
                      \E k \in 1..Len(JsonFrames(i)) : IsDeltaFrame(JsonFrames(i)[k]))
            /\ \A k \in 1..Len(pushed[i]) :
                  IsDoneFrame(pushed[i][k]) => k > 1 /\ IsStopFrame(pushed[i][k - 1])
            /\ exit[i] = "completed" => FirstCompleted(sc) # 0
            /\ exit[i] = "eos" => pos[i] = Len(Stream(i)) /\ FirstCompleted(sc) = 0
            /\ CleanEnd(i) =>
                  /\ DeltaTexts(pushed[i]) = ExpectedTexts(sc)
                  /\ Len(pushed[i]) =
                        Len(ExpectedTexts(sc)) + (IF FirstCompleted(sc) # 0 THEN 2 ELSE 0)

\* a [DONE] in a frame of its own, then a delta and a completed event: the
\* task has pushed the delta frame with the role, the stop chunk and its
\* own [DONE], and has ended at the completed event
C30_Witness ==
    \E i \in Translating :
        /\ input[i].script = <<[line |-> "done", sep |-> "end"],
                               [line |-> "delta_a", sep |-> "end"],
                               [line |-> "completed", sep |-> "end"]>>
        /\ exit[i] = "completed" /\ ~send_err[i]
        /\ pushed[i] = <<DeltaFrame(Stamp(i), "a", FALSE), FinalChunk(Stamp(i)), SseDone>>

\* a delta, a [DONE], a delta: the second delta frame has no role
C30_WitnessBetween ==
    \E i \in Translating :
        /\ input[i].script = <<[line |-> "delta_a", sep |-> "end"],
                               [line |-> "done", sep |-> "end"],
                               [line |-> "delta_a", sep |-> "end"]>>
        /\ exit[i] = "eos" /\ ~send_err[i]
        /\ pushed[i] = <<DeltaFrame(Stamp(i), "a", FALSE), DeltaFrame(Stamp(i), "a", TRUE)>>

(***************************************************************************)
(* C31.  In the translating mode an event with a tag other than            *)
(* response.output_text.delta and response.completed, a line that does not *)
(* start with "data: " and a payload that is not UTF-8 JSON are without    *)
(* effect: each makes no outbound frame, leaves the role flag and the rest *)
(* of the buffer as they are, and does not stop the forwarding.            *)
(***************************************************************************)
IgnoredLines == {LineBytes(k) : k \in IgnoredKinds}

C31_IgnoredLinesHaveNoEffect ==
    \A i \in Translating :
        LET sc == input[i].script
            ds == SelectSeq(pushed[i], IsDeltaFrame)
        IN  /\ \A l \in IgnoredLines :
                  /\ LineAction(l).act = "skip"
                  /\ Advance(Stamp(i), buf[i], <<l>> \o lines[i], sent_role[i])
                        = Advance(Stamp(i), buf[i], lines[i], sent_role[i])
            /\ \A k \in 1..Len(ds) : HasRole(ds[k]) <=> k = 1
            /\ exit[i] = "completed" => FirstCompleted(sc) # 0
            /\ CleanEnd(i) =>
                  /\ DeltaTexts(pushed[i]) = ExpectedTexts(sc)
                  /\ Len(pushed[i]) =
                        Len(ExpectedTexts(sc)) + (IF FirstCompleted(sc) # 0 THEN 2 ELSE 0)
                  /\ FirstCompleted(sc) # 0 => exit[i] = "completed"

\* a line with another prefix and then, in a frame of its own, a delta: the
\* one frame pushed is the delta frame, with the role
C31_Witness ==
    \E i \in Translating :
        /\ input[i].script = <<[line |-> "nodata", sep |-> "end"],
                               [line |-> "delta_a", sep |-> "end"]>>
        /\ exit[i] = "eos" /\ ~send_err[i]
        /\ pushed[i] = <<DeltaFrame(Stamp(i), "a", FALSE)>>

\* a payload that is not JSON in the frame of a completed event
C31_WitnessSameFrame ==
    \E i \in Translating :
        /\ input[i].script = <<[line |-> "badjson", sep |-> "cont"],
                               [line |-> "completed", sep |-> "end"]>>
        /\ exit[i] = "completed" /\ ~send_err[i]
        /\ pushed[i] = <<FinalChunk(Stamp(i)), SseDone>>

(***************************************************************************)
(* C32.  Two streaming sessions that run at once do not influence each     *)
(* other: what is delivered for a session, its texts, the place of the     *)
(* role, the final pair and the id, depends on the upstream bytes and on   *)
(* the consumer of that session alone, however the steps of the two tasks  *)
(* interleave.  No step touches the state of more than one session, and    *)
(* what a session has pushed is what it would push if it were alone.       *)
(***************************************************************************)
\* all that belongs to one session
SessionState(i) ==
    <<input[i], pos[i], pc[i], buf[i], lines[i], sent_role[i], pending[i],
      chan[i], rx[i], pushed[i], delivered[i], exit[i], send_err[i], chunks[i],
      split[i]>>

\* the texts of the delta lines of a script
OwnTexts(sc) ==
    {IF sc[k].line = "delta_a" THEN "a" ELSE "b" :
        k \in {q \in 1..Len(sc) : sc[q].line \in {"delta_a", "delta_b"}}}

\* the items of a session are made of its own stream and stamp: the texts
\* are texts of its script, there are no more delta frames than delta
\* lines, the first delta frame alone has the role, the final pair is there
\* only if the script has a completed event, and a chunk passed through is
\* a piece of the stream
OwnItems(i) ==
    LET sc == input[i].script
        pu == pushed[i]
        deltas == {k \in 1..Len(pu) : IsDeltaFrame(pu[k])}
    IN  /\ IsPrefix(delivered[i], pu)
        /\ Mode(i) = "translating" =>
              /\ \A k \in 1..Len(pu) :
                    /\ pu[k].kind \in {"json", "done"}
                    /\ pu[k].kind = "json" => /\ pu[k].body.id = input[i].cc_id
                                              /\ pu[k].body.created = input[i].created
                                              /\ pu[k].body.model = input[i].model
                    /\ k \in deltas =>
                          /\ pu[k].body.delta.content \in OwnTexts(sc)
                          /\ HasRole(pu[k]) <=> \A q \in deltas : k <= q
                    /\ ~(k \in deltas) =>
                          \E q \in 1..Len(sc) : sc[q].line = "completed"
              /\ Cardinality(deltas) <= Cardinality({q \in 1..Len(sc) : sc[q].line # "completed"})
              /\ Len(pu) <= Cardinality(deltas) + 2
        /\ Mode(i) = "passthrough" =>
              \A k \in 1..Len(pu) :
                  /\ pu[k].kind = "bytes"
                  /\ \E m \in 1..Len(Stream(i)), n \in 1..Len(Stream(i)) :
                        SubSeq(Stream(i), m, n) = pu[k].bytes

C32_SessionsDoNotInterfere ==
    [][/\ \E i \in Sessions :
             \A j \in Sessions \ {i} : SessionState(j)' = SessionState(j)
       /\ \A i \in Active : OwnItems(i)']_vars

\* both sessions have run to their end, each with a delta and its final
\* pair: the first has delivered a under its id, the second b under its own
C32_Witness ==
    /\ Translating = {"s1", "s2"}
    /\ \A i \in Sessions : rx[i] = "ended" /\ exit[i] = "completed" /\ split[i]
    /\ delivered["s1"] = <<DeltaFrame(Stamp("s1"), "a", FALSE),
                           FinalChunk(Stamp("s1")), SseDone>>
    /\ delivered["s2"] = <<DeltaFrame(Stamp("s2"), "b", FALSE),
                           FinalChunk(Stamp("s2")), SseDone>>
    /\ Stamp("s1").cc_id # Stamp("s2").cc_id

(***************************************************************************)
(* C33.  The headers of the requests sent upstream.                        *)
(***************************************************************************)
\* the header set of the k-th request has the marker, an identifier, the
\* originator and the user-agent derived from it
CarriesResponsesHeaders(k) ==
    /\ hdrs[k].beta = Some("responses=experimental")
    /\ hdrs[k].session_id.some
    /\ hdrs[k].originator = Some(cfg.originator)
    /\ hdrs[k].user_agent = Some(get_codex_user_agent(cfg.originator))

\* the identifier of the k-th request is that of no other request
FreshSession(k) ==
    \A q \in 1..Len(hdrs) : q # k => hdrs[q].session_id # hdrs[k].session_id

\* the account header is there if and only if the credentials are those of
\* ChatGPT and have an account id
AccountIffChatGPT(k) ==
    /\ hdrs[k].account.some <=>
          (IsChatGPT(cfg.auth) /\ cfg.auth.val.account_id.some)
    /\ hdrs[k].account.some => hdrs[k].account.val = cfg.auth.val.account_id.val

\* C33 as stated: every request sent upstream carries the beta-feature
\* marker, a session identifier of its own, the originator and the derived
\* user-agent, and the account header if and only if the auth mode is
\* ChatGPT with an account id.  A chat request passed through to a Chat
\* provider violates it.
C33_EveryRequestCarriesHeaders ==
    /\ Len(hdrs) = Len(sent)
    /\ \A k \in 1..Len(hdrs) :
          CarriesResponsesHeaders(k) /\ FreshSession(k) /\ AccountIffChatGPT(k)

\* C33, amended: every request sent to a Responses provider carries the
\* beta-feature marker, a session identifier generated for that request
\* alone, the originator and the derived user-agent, and the account header
\* if and only if the auth mode is ChatGPT with an account id; a request
\* passed through to a Chat provider carries none of the five.
C33_ResponsesRequestsCarryHeaders ==
    /\ Len(hdrs) = Len(sent)
    /\ \A k \in 1..Len(hdrs) :
          IF cfg.wire_api = "Responses"
          THEN CarriesResponsesHeaders(k) /\ FreshSession(k) /\ AccountIffChatGPT(k)
          ELSE /\ ~hdrs[k].beta.some /\ ~hdrs[k].session_id.some
               /\ ~hdrs[k].originator.some /\ ~hdrs[k].user_agent.some
               /\ ~hdrs[k].account.some

\* two requests went to a Responses provider under ChatGPT credentials with
\* an account id: both have the account header and their identifiers differ
C33_Witness ==
    /\ Len(hdrs) = 2 /\ cfg.wire_api = "Responses"
    /\ hdrs[1].account = Some("acct") /\ hdrs[2].account = Some("acct")
    /\ hdrs[1].session_id # hdrs[2].session_id
    /\ hdrs[1].beta = Some("responses=experimental")

\* a request went to a Responses provider under ChatGPT credentials without
\* an account id, and has no account header
C33_WitnessNoAccount ==
    /\ Len(hdrs) = 1 /\ cfg.wire_api = "Responses"
    /\ IsChatGPT(cfg.auth) /\ ~cfg.auth.val.account_id.some
    /\ ~hdrs[1].account.some /\ hdrs[1].session_id.some

\* a chat request went to a Chat provider without any of the headers
C33_WitnessChatProvider ==
    /\ Len(hdrs) = 1 /\ cfg.wire_api = "Chat" /\ req.route = "chat"
    /\ ~hdrs[1].beta.some /\ ~hdrs[1].session_id.some

(***************************************************************************)
(* C34.  The status and the content type of the response when the upstream *)
(* has answered.                                                           *)
(***************************************************************************)
\* the handler returns the answer of a request that did not stream
AnswersPlain == hpc = "reply" /\ hpc' = "done"

\* the handler returns the response of a streaming request whose send was Ok
AnswersStream ==
    /\ hpc = "send" /\ hpc' = "done"
    /\ \E i \in Sessions : input[i] = Absent /\ input'[i] # Absent

\* the status of the upstream, or 502 for a code that is no status
Mapped == IF reply.status \in 100..999 THEN reply.status ELSE 502

\* C34 as stated: whenever the upstream answered, the outbound status is the
\* status of the upstream (502 when it cannot be mapped), in both modes and
\* for every status; the content type is application/json on every response
\* that does not stream and text/event-stream on every streaming response
\* that reached the upstream.  A translated request whose answer has a body
\* that is not JSON violates it.
C34_StatusIsUpstreamStatus ==
    [][/\ AnswersPlain =>
            /\ resp'.val.status = Mapped
            /\ resp'.val.content_type = "application/json"
       /\ AnswersStream =>
            /\ resp'.val.status = Mapped
            /\ resp'.val.content_type = "text/event-stream"]_vars

\* the 502 of chat_to_responses_proxy_cc for a body that cannot be read as
\* JSON
InvalidUpstreamJson ==
    Response(502, "application/json", ErrorEnvelope("invalid upstream json: e"))

\* C34, amended: whenever the upstream answered and the handler returns a
\* response, the outbound status is the status of the upstream (502 when it
\* cannot be mapped), in both modes and for every status, except that in
\* the translating mode a body that cannot be read as JSON is answered 502
\* with the error envelope; the content type is application/json on every
\* such response that does not stream and text/event-stream on every
\* streaming response that reached the upstream.
C34_StatusIsUpstreamStatusUnlessNotJson ==
    [][/\ AnswersPlain =>
            /\ resp'.val.content_type = "application/json"
            /\ \/ resp'.val.status = Mapped
               \/ /\ ModeOf(req.route, cfg.wire_api) = "translating"
                  /\ resp'.val = InvalidUpstreamJson
            /\ (ModeOf(req.route, cfg.wire_api) = "translating" /\ reply.body.t = "not_json")
                  => resp'.val = InvalidUpstreamJson
            /\ ModeOf(req.route, cfg.wire_api) = "passthrough" => resp'.val.status = Mapped
       /\ AnswersStream =>
            /\ resp'.val.status = Mapped
            /\ resp'.val.content_type = "text/event-stream"]_vars

\* a translated request was answered 429 with a JSON body by the upstream
\* and 429 with application/json by the handler
C34_Witness ==
    /\ hpc = "done" /\ effects # <<>> /\ effects[Len(effects)] = "send"
    /\ ModeOf(req.route, cfg.wire_api) = "translating"
    /\ reply.status = 429 /\ reply.body.t # "not_json"
    /\ resp.val.status = 429 /\ resp.val.content_type = "application/json"
    /\ Get(resp.val.body, "object") = JStr("chat.completion")

\* a streaming request was answered 429 by the upstream and 429 with
\* text/event-stream by the handler
C34_WitnessStream ==
    /\ hpc = "done" /\ Active # {}
    /\ reply.status = 429
    /\ resp.val.status = 429 /\ resp.val.content_type = "text/event-stream"

\* the upstream answered 200 with a body that is not JSON to a translated
\* request: the handler answers 502
C34_WitnessNotJson ==
    /\ hpc = "done" /\ ModeOf(req.route, cfg.wire_api) = "translating"
    /\ reply.status = 200 /\ reply.body.t = "not_json"
    /\ resp.val = InvalidUpstreamJson

(***************************************************************************)
(* C35.  The output array and the usage object of an answer that is        *)
(* translated without streaming, at the top level of the body or under     *)
(* "response".                                                             *)
(***************************************************************************)
\* the handler has returned the chat.completion object made of the answer
TranslatedReply ==
    /\ hpc = "done" /\ resp.some
    /\ req.route = "chat" /\ Extracts(req) /\ ~Streams
    /\ ModeOf(req.route, cfg.wire_api) = "translating"
    /\ resp.val.body.t = "obj"
    /\ Get(resp.val.body, "object") = JStr("chat.completion")

\* the value under key k at the top level of the answer and under "response"
AtTop(k) == Get(reply.body, k)
AtNested(k) == Get(Get(reply.body, "response"), k)

\* the content and the counts of the chat.completion object
ContentOfReply == Get(Get(Get(resp.val.body, "choices").a[1], "message"), "content").s
CountOfReply(k) == Get(Get(resp.val.body, "usage"), k).n

\* C35: in the translation that does not stream, whenever an "output" array
\* exists at the top level of the upstream body or under "response" (and at
\* that place alone) its message text is the translated content, and
\* whenever a "usage" object exists at either place (and at that place
\* alone) its input and output token counts are copied.
C35_OutputAndUsageAtEitherPlace ==
    TranslatedReply =>
        /\ (IsArr(AtTop("output")) /\ ~IsArr(AtNested("output")))
              => ContentOfReply = ItemsText(AtTop("output").a, 1)
        /\ (IsArr(AtNested("output")) /\ ~IsArr(AtTop("output")))
              => ContentOfReply = ItemsText(AtNested("output").a, 1)
        /\ (AtTop("usage").t = "obj" /\ AtNested("usage").t # "obj")
              => /\ CountOfReply("prompt_tokens") = U64OrZero(Get(AtTop("usage"), "input_tokens"))
                 /\ CountOfReply("completion_tokens") = U64OrZero(Get(AtTop("usage"), "output_tokens"))
        /\ (AtNested("usage").t = "obj" /\ AtTop("usage").t # "obj")
              => /\ CountOfReply("prompt_tokens") = U64OrZero(Get(AtNested("usage"), "input_tokens"))
                 /\ CountOfReply("completion_tokens") = U64OrZero(Get(AtNested("usage"), "output_tokens"))

\* what holds: the place under "response" is looked at when the top level
\* has no such key at all, and only then
C35_NestedFoundWhenTopAbsent ==
    TranslatedReply =>
        /\ (AtTop("output").t = "missing" /\ IsArr(AtNested("output")))
              => ContentOfReply = ItemsText(AtNested("output").a, 1)
        /\ (AtTop("usage").t = "missing" /\ AtNested("usage").t = "obj")
              => CountOfReply("prompt_tokens") = U64OrZero(Get(AtNested("usage"), "input_tokens"))
        /\ (AtTop("output").t \notin {"missing", "arr"}) => ContentOfReply = ""
        /\ (AtTop("usage").t \notin {"missing", "obj"}) => CountOfReply("prompt_tokens") = 0

\* the answer has its output and usage under "response" alone and they are
\* found
C35_WitnessNested ==
    /\ TranslatedReply
    /\ AtTop("output").t = "missing" /\ IsArr(AtNested("output"))
    /\ ContentOfReply = "a" /\ CountOfReply("prompt_tokens") = 1

\* the answer has a null output and usage at the top level and the array
\* and the object under "response": the content is empty and the counts 0
C35_WitnessNullOnTop ==
    /\ TranslatedReply
    /\ AtTop("output").t = "null" /\ IsArr(AtNested("output"))
    /\ ItemsText(AtNested("output").a, 1) = "a"
    /\ ContentOfReply = "" /\ CountOfReply("prompt_tokens") = 0

(***************************************************************************)
(* C36.  When the upstream ends, by the end of the stream or by a read     *)
(* error, what is left in the buffer of a translating task has no blank    *)
(* line after it and is dropped with the task: it is never dispatched and  *)
(* no frame comes of it, even when it is a complete data line.             *)
(***************************************************************************)
\* the task has returned because the upstream ended
UpstreamEnded(i) == pc[i] = "done" /\ exit[i] \in {"eos", "read_error"}

\* what the task has read, without what is still in the buffer
DrainedBytes(i) == SubSeq(Received(i), 1, pos[i] - Len(buf[i]))

\* the delta lines of a script that no blank line ends
UndispatchedDeltas(sc) ==
    {k \in 1..Len(sc) : sc[k].line \in {"delta_a", "delta_b"} /\ ~Dispatched(sc, k)}

\* C36: after the end of the stream or a read error the buffer of a
\* translating task holds the bytes read after the last blank line, and
\* what the task has pushed is what the bytes before them alone give: the
\* bytes in the buffer are not dispatched and give no frame.
C36_UnterminatedTailIsDiscarded ==
    \A i \in Translating :
        UpstreamEnded(i) =>
            /\ ~HasDelim(buf[i])
            /\ Received(i) = DrainedBytes(i) \o buf[i]
            /\ lines[i] = <<>> /\ pending[i] = NoItem
            /\ \A x \in {<<Stamp(i), DrainedBytes(i)>>} :
                  pushed[i] = Unsplit(x[1], x[2])
            /\ exit[i] = "eos" =>
                  /\ DeltaTexts(pushed[i]) = ExpectedTexts(input[i].script)
                  /\ Len(SelectSeq(pushed[i], IsDeltaFrame)) + Cardinality(UndispatchedDeltas(input[i].script))
                        = Cardinality({k \in 1..Len(input[i].script) :
                                          input[i].script[k].line \in {"delta_a", "delta_b"}})

\* the stream ended after a delta frame and a complete data line that only
\* one newline follows: the line is in the buffer and one frame was pushed
C36_Witness ==
    \E i \in Translating :
        /\ exit[i] = "eos" /\ pc[i] = "done"
        /\ input[i].script = <<[line |-> "delta_a", sep |-> "end"],
                               [line |-> "delta_b", sep |-> "cont"]>>
        /\ buf[i] = LineBytes("delta_b") \o <<NL>>
        /\ pushed[i] = <<DeltaFrame(Stamp(i), "a", FALSE)>>

\* a read error found a complete response.completed line in the buffer: no
\* final pair was pushed
C36_WitnessReadError ==
    \E i \in Translating :
        /\ exit[i] = "read_error" /\ pc[i] = "done"
        /\ buf[i] = LineBytes("completed") \o <<NL>>
        /\ pushed[i] = <<>>

(***************************************************************************)
(* C37.  After any sequence of put and get_if_fresh the map holds at most  *)
(* `capacity` entries and the queue `order` holds the keys of the map and  *)
(* no other, each once.                                                    *)
(***************************************************************************)
Keys(c) == DOMAIN c.map

\* the map is within the capacity and the queue is the keys of the map,
\* each once
Consistent(c) ==
    /\ Cardinality(Keys(c)) <= c.capacity
    /\ {c.order[n] : n \in 1..Len(c.order)} = Keys(c)
    /\ Len(c.order) = Cardinality(Keys(c))

\* C37: the cache holds at most `capacity` entries and `order` contains
\* exactly the keys of the map, each exactly once, after every put and
\* every get_if_fresh.
C37_CapacityAndOrderConsistent == Consistent(cache)

\* a put of a third key into a full cache of two, after a hit
C37_Witness ==
    /\ last.op = "put" /\ cache.capacity = 2
    /\ Cardinality(Keys(last.before)) = 2 /\ last.key \notin Keys(last.before)
    /\ Cardinality(Keys(cache)) = 2 /\ Len(cache.order) = 2
    /\ \E k \in Paths : last.used[k] > 0 /\ k \notin Keys(cache)

(***************************************************************************)
(* C38.  The eviction is in the order of the last use: a put of a new key  *)
(* into a full cache removes the one key whose last put or hit is the      *)
(* oldest, a put of a key that is there removes nothing, and a hit of      *)
(* get_if_fresh makes its key the one used last.                           *)
(***************************************************************************)
\* the key of a cache whose last put or hit is the oldest
Oldest(c) == CHOOSE k \in Keys(c) : \A q \in Keys(c) : last.used[k] <= last.used[q]

\* C38: a put of a new key into a full cache removes exactly the key whose
\* last put or get_if_fresh hit is oldest; a put of a key already present
\* removes nothing; a put of a new key into a cache that is not full
\* removes nothing; after a put or a hit the key is the most recently used,
\* and the queue is in the order of the last uses.
C38_EvictsLeastRecentlyUsed ==
    /\ last.op = "put" =>
          /\ last.key \in Keys(cache) /\ cache.order[1] = last.key
          /\ cache.map[last.key] = [mtime |-> last.modified,
                                    title |-> cache.map[last.key].title]
          /\ last.key \in Keys(last.before) => Keys(cache) = Keys(last.before)
          /\ (last.key \notin Keys(last.before)
                /\ Cardinality(Keys(last.before)) < cache.capacity)
                => Keys(cache) = Keys(last.before) \cup {last.key}
          /\ (last.key \notin Keys(last.before)
                /\ Cardinality(Keys(last.before)) = cache.capacity)
                => Keys(cache) = (Keys(last.before) \ {Oldest(last.before)}) \cup {last.key}
    /\ (last.op = "get" /\ last.out.some) =>
          /\ cache.order[1] = last.key
          /\ Keys(cache) = Keys(last.before)
    /\ \A a \in 1..Len(cache.order), b \in 1..Len(cache.order) :
          a < b => last.used[cache.order[a]] > last.used[cache.order[b]]

\* p1 was put, then p2, then p1 was hit: the put of p3 into the full cache
\* of two removes p2, which came later than p1 but was used less recently
C38_Witness ==
    /\ last.op = "put" /\ last.key = "p3" /\ cache.capacity = 2
    /\ last.before.order = <<"p1", "p2">>
    /\ last.used["p1"] = 3 /\ last.used["p2"] = 2 /\ last.n = 4
    /\ Keys(cache) = {"p1", "p3"} /\ cache.order = <<"p3", "p1">>

(***************************************************************************)
(* C39.  get_if_fresh(key, modified) gives the stored title if and only if *)
(* the key is stored with an mtime at or after `modified`; a miss gives    *)
(* nothing and leaves the map and the queue as they were.                  *)
(***************************************************************************)
\* the key is stored in the cache with a time at or after `modified`
Fresh(c, key, modified) == key \in Keys(c) /\ c.map[key].mtime >= modified

\* C39: get_if_fresh returns the stored title if and only if the key is
\* stored with a recorded mtime greater than or equal to `modified`; on a
\* miss it returns nothing and the map and the recency order are unchanged.
C39_GetIfFreshOnlyWhenFresh ==
    last.op = "get" =>
        /\ last.out.some <=> Fresh(last.before, last.key, last.modified)
        /\ last.out.some => last.out.val = last.before.map[last.key].title
        /\ ~last.out.some => cache = last.before
        /\ cache.map = last.before.map

\* the key is stored with time 0 and asked for with time 1: a miss, and the
\* cache of two keys is as it was, the stale key at the back
C39_Witness ==
    /\ last.op = "get" /\ ~last.out.some
    /\ last.key \in Keys(last.before)
    /\ last.before.map[last.key].mtime = 0 /\ last.modified = 1
    /\ cache = last.before /\ Len(cache.order) = 2
    /\ cache.order[2] = last.key

\* a hit on an entry with the very time asked for
C39_WitnessHit ==
    /\ last.op = "get" /\ last.out = Some("b")
    /\ last.before.map[last.key] = [mtime |-> 1, title |-> "b"]
    /\ last.modified = 1

(***************************************************************************)
(* C40.  Concurrent calls of extract_title_cached and modifications of the *)
(* files, in any order, with the lock released during the extraction: a    *)
(* hit for a file read with mtime m never gives a title made of a content  *)
(* older than m, and the cache stays within its capacity with a queue of   *)
(* its keys.                                                               *)
(***************************************************************************)
\* C40: under every interleaving of the calls and the modifications, a
\* cache hit of a call that read the mtime m of its file returns a title
\* extracted from a content written at m or later; every entry of the cache
\* has a title of a content at least as new as the mtime it is stored with;
\* and the capacity and the consistency of map and order hold.
C40_HitIsNeverOlderThanMtime ==
    /\ Consistent(cache)
    /\ \A k \in Keys(cache) : cache.map[k].title.from_time >= cache.map[k].mtime
    /\ \A t \in Threads :
          calls[t].hit =>
              /\ calls[t].ret.some
              /\ calls[t].ret.val.from_time >= calls[t].modified

\* a call has hit the title of the second content of a file it read with
\* mtime 1, while the other call is about to store a title for the same
\* file with the mtime 0 it read before the file was written
C40_Witness ==
    \E t \in Threads, u \in Threads :
        /\ t # u
        /\ calls[t].pc = "idle" /\ calls[t].hit /\ calls[t].modified = 1
        /\ calls[t].ret.val.from_time = 1
        /\ calls[u].pc = "put" /\ calls[u].path = calls[t].path
        /\ calls[u].modified = 0
        /\ files[calls[t].path].mtime = 1

\* an older entry has replaced a newer one: the call that read first stored
\* last, and the file is read again
C40_WitnessOverwritten ==
    \E t \in Threads :
        /\ calls[t].pc = "extract" /\ calls[t].modified = 1
        /\ calls[t].path \in Keys(cache)
        /\ cache.map[calls[t].path].mtime = 0
        /\ \E u \in Threads \ {t} : calls[u].ret.some /\ calls[u].ret.val.from_time = 1
                                     /\ calls[u].path = calls[t].path /\ calls[u].modified = 1

====
